---- MODULE Spec2Model ----
(***************************************************************************)
(* A model of bhyve-api: the VirtualMachine handle of src/src/vm.rs and    *)
(* the hypervisor channel (the ioctl interface of /dev/vmm/<name>) that it *)
(* drives.                                                                 *)
(*                                                                         *)
(* Byte quantities (lengths, offsets, guest-physical addresses) are        *)
(* counted in KiB, so that 4 GiB and 3 GiB stay inside TLC's integers.     *)
(* The code only compares, adds and subtracts them.                        *)
(***************************************************************************)
EXTENDS Integers, Sequences, FiniteSets, TLC

VARIABLES
    segs,          \* hypervisor: segment table, role -> [len, name]
    maps,          \* hypervisor: guest-physical mappings (set of vm_memmap)
    hostmaps,      \* host process: ranges mapped from the VM descriptor
    memflags,      \* VirtualMachine.memflags
    lowmem_limit,  \* VirtualMachine.lowmem_limit
    regs,          \* hypervisor: vcpu -> register name -> value
    descs,         \* hypervisor: vcpu -> descriptor register -> seg_desc
    last,          \* the latest call through the handle: operation, arguments, result, requests issued
    ncalls,        \* number of calls made so far
    devices,       \* hypervisor: names of the VM devices under /dev/vmm
    fdtab,         \* host process: descriptor -> the channel open on it
    released,      \* host process: channel -> number of times it has been released
    handles,       \* the VirtualMachine values of the program
    threads        \* the threads sharing one handle: latest result, and the state each would reach alone

vars == <<segs, maps, hostmaps, memflags, lowmem_limit, regs, descs, last, ncalls,
          devices, fdtab, released, handles, threads>>

lifevars == <<devices, fdtab, released, handles>>

-----------------------------------------------------------------------------
(* Bounds of the model *)

\* calls explored from each initial state of the memory specification
MaxMemCalls == 2

\* calls explored from each initial state of the vCPU specification
MaxCpuCalls == 1

\* calls explored from each initial state of the lifecycle specification
MaxLifeCalls == 3

\* operations each thread issues in the two-thread specification
MaxThreadOps == 2

\* calls explored from each initial state of the bring-up specification
MaxBootCalls == 4

-----------------------------------------------------------------------------
(* Program constants *)

MB == 1024
GB == 1024 * MB
MAX_BOOTROM_SIZE == 16 * MB
\* sysconf(_SC_PAGESIZE) of the host: 4 KiB
PageSize == 4
SPECNAMELEN == 63
VM_MEM_F_WIRED == 2
VM_MEMMAP_F_WIRED == 1
PROT_READ == 1
PROT_WRITE == 2
PROT_EXEC == 4

VM_LOWMEM == 0
VM_HIGHMEM == 1
VM_BOOTROM == 2
VM_FRAMEBUFFER == 3

MemSegId == {VM_LOWMEM, VM_HIGHMEM, VM_BOOTROM, VM_FRAMEBUFFER}

\* the default lowmem limit of a fresh handle
DefaultLowmemLimit == 3 * GB

\* bit test of `x & bit` for a single-bit mask
HasBit(x, bit) == (x \div bit) % 2 = 1

-----------------------------------------------------------------------------
(* Results: Result<T, std::io::Error>.  err is "" on success, the name of   *)
(* an ErrorKind for Error::from(ErrorKind::..), and the errno name for      *)
(* Error::last_os_error().                                                  *)

Ok(v) == [ok |-> TRUE, err |-> "", val |-> v]
Err(e, dflt) == [ok |-> FALSE, err |-> e, val |-> dflt]

InvalidInput == "InvalidInput"
AlreadyExists == "AlreadyExists"
AddrNotAvailable == "AddrNotAvailable"

-----------------------------------------------------------------------------
(* Segment names: byte strings.  name: [c_char; SPECNAMELEN + 1].          *)

NameBufLen == SPECNAMELEN + 1

ZeroName == [i \in 1..NameBufLen |-> 0]

\* for (to, from) in memseg_data.name.iter_mut().zip(c_name.as_bytes_with_nul())
CopyName(buf, name) ==
    LET src == Append(name, 0)
        n == IF Len(src) < Len(buf) THEN Len(src) ELSE Len(buf)
    IN [i \in 1..Len(buf) |-> IF i <= n THEN src[i] ELSE buf[i]]

\* CStr::from_ptr(buf): the bytes before the first NUL
RECURSIVE CStrFrom(_, _)
CStrFrom(buf, i) ==
    IF i > Len(buf) \/ buf[i] = 0 THEN <<>> ELSE <<buf[i]>> \o CStrFrom(buf, i + 1)

CStrOf(buf) == CStrFrom(buf, 1)

-----------------------------------------------------------------------------
(* The channel: requests, and the faults the channel may answer with        *)

NoFault == "none"

\* the errno a failing channel answers each request with (one per request, all distinct)
ChannelErrno(kind) ==
    CASE kind = "VM_GET_MEMSEG" -> "ENXIO"
      [] kind = "VM_ALLOC_MEMSEG" -> "ENOMEM"
      [] kind = "VM_MMAP_GETNEXT" -> "EINTR"
      [] kind = "VM_MMAP_MEMSEG" -> "ENOSPC"
      [] kind = "VM_MUNMAP_MEMSEG" -> "EBUSY"
      [] kind = "VM_DEVMEM_GETOFFSET" -> "EFAULT"
      [] OTHER -> "MAP_FAILED"

\* A fault plan says, for one call, which of its requests the channel fails
FaultPlan(failing) == [r \in ({"VM_GET_MEMSEG", "VM_ALLOC_MEMSEG", "VM_MMAP_GETNEXT", "VM_MMAP_MEMSEG", "VM_MUNMAP_MEMSEG", "VM_DEVMEM_GETOFFSET", "HOST_MMAP"}) |-> IF r \in failing THEN ChannelErrno(r) ELSE NoFault]
NoFaults == FaultPlan({})

\* the plans with at most one failing request among kinds
Plans(kinds) == {NoFaults} \cup {FaultPlan({k}) : k \in kinds}

\* one entry of a call's request log
Req(kind, err) == [req |-> kind, err |-> err]

\* the hypervisor-side state threaded through a call
KState == [segs |-> segs, maps |-> maps, host |-> hostmaps]

Out(k, res, reqs) == [k |-> k, res |-> res, reqs |-> reqs]

-----------------------------------------------------------------------------
(* The hypervisor's side of the memory requests *)

\* the segment table keeps each segment's length and its name as a string
Absent == [len |-> 0, name |-> <<>>]

\* VM_GET_MEMSEG: (len, name) of the segment, len 0 when it is not allocated;
\* the name comes back in the request's buffer, NUL-terminated
K_get_memseg(k, segid, f) ==
    IF f # NoFault THEN [err |-> f, len |-> 0, name |-> ZeroName]
    ELSE [err |-> "", len |-> k.segs[segid].len,
          name |-> CopyName(ZeroName, k.segs[segid].name)]

\* VM_ALLOC_MEMSEG: creates the segment once, named by the string in the
\* request's buffer; a length of 0 is no segment
K_alloc_memseg(k, segid, len, name, f) ==
    IF f # NoFault THEN [err |-> f, k |-> k]
    ELSE IF len = 0 THEN [err |-> "EINVAL", k |-> k]
    ELSE IF k.segs[segid].len # 0 THEN [err |-> "EEXIST", k |-> k]
    ELSE [err |-> "",
          k |-> [k EXCEPT !.segs[segid] = [len |-> len, name |-> CStrOf(name)]]]

\* VM_MMAP_GETNEXT: the mapping with the smallest start address >= gpa
K_mmap_getnext(k, gpa, f) ==
    LET cands == {m \in k.maps : m.gpa >= gpa} IN
    IF f # NoFault THEN [err |-> f, m |-> [gpa |-> gpa, segid |-> 0, segoff |-> 0, len |-> 0, prot |-> 0, flags |-> 0]]
    ELSE IF cands = {} THEN [err |-> "ENOENT", m |-> [gpa |-> gpa, segid |-> 0, segoff |-> 0, len |-> 0, prot |-> 0, flags |-> 0]]
    ELSE [err |-> "", m |-> CHOOSE m \in cands : \A o \in cands : m.gpa <= o.gpa]

Overlaps(m, o) == m.gpa < o.gpa + o.len /\ o.gpa < m.gpa + m.len

\* VM_MMAP_MEMSEG: maps [segoff, segoff+len) of an allocated segment at a free range
K_mmap_memseg(k, m, f) ==
    IF f # NoFault THEN [err |-> f, k |-> k]
    ELSE IF k.segs[m.segid].len = 0 \/ m.len = 0 \/ m.segoff + m.len > k.segs[m.segid].len
         THEN [err |-> "EINVAL", k |-> k]
    ELSE IF \E o \in k.maps : Overlaps(m, o) THEN [err |-> "ENOMEM", k |-> k]
    ELSE [err |-> "", k |-> [k EXCEPT !.maps = @ \cup {m}]]

\* VM_MUNMAP_MEMSEG: removes the mapping that covers exactly [gpa, gpa+len)
K_munmap_memseg(k, gpa, len, f) ==
    IF f # NoFault THEN [err |-> f, k |-> k]
    ELSE IF ~ \E o \in k.maps : o.gpa = gpa /\ o.len = len THEN [err |-> "EINVAL", k |-> k]
    ELSE [err |-> "", k |-> [k EXCEPT !.maps = {o \in @ : o.gpa # gpa}]]

IsDevmem(seg) == seg.len # 0 /\ seg.name # <<>>

\* the offset cookie of a device-memory segment on the VM descriptor
DevmemCookie(segid) == (segid + 1) * GB

\* VM_DEVMEM_GETOFFSET: only a named (device-memory) segment has an offset
K_devmem_getoffset(k, segid, f) ==
    IF f # NoFault THEN [err |-> f, offset |-> 0]
    ELSE IF ~ IsDevmem(k.segs[segid]) THEN [err |-> "ENOENT", offset |-> 0]
    ELSE [err |-> "", offset |-> DevmemCookie(segid)]

\* libc::mmap(base, len, .., MAP_SHARED | MAP_FIXED, fd, off): replaces what was at base
HostMmap(k, base, len, off, f) ==
    IF f # NoFault \/ len = 0 THEN [failed |-> TRUE, k |-> k]
    ELSE [failed |-> FALSE,
          k |-> [k EXCEPT !.host = {h \in @ : h.base # base} \cup {[base |-> base, len |-> len, off |-> off]}]]

-----------------------------------------------------------------------------
(* VirtualMachine: memory operations *)

\* the lookup with the gpa left out of the request: ..Default::default() alone
mmap_getnext_fromzero(k, gpa, fl) ==
    LET r == K_mmap_getnext(k, 0, fl["VM_MMAP_GETNEXT"]) IN
    [res  |-> IF r.err = "" THEN Ok(r.m) ELSE Err(r.err, r.m),
     reqs |-> <<Req("VM_MMAP_GETNEXT", r.err)>>]

\* fn mmap_getnext(&self, gpa)
mmap_getnext(k, gpa, fl) ==
    LET r == K_mmap_getnext(k, gpa, fl["VM_MMAP_GETNEXT"]) IN
    [res  |-> IF r.err = "" THEN Ok(r.m) ELSE Err(r.err, r.m),
     reqs |-> <<Req("VM_MMAP_GETNEXT", r.err)>>]

\* the flags of the request: wired when the handle's memflags say so
MemmapFlags(mflags) == IF HasBit(mflags, VM_MEM_F_WIRED) THEN VM_MEMMAP_F_WIRED ELSE 0

\* the comparison with the protection left out
SameMapping_noprot(exists, mem_data) ==
    /\ exists.segid = mem_data.segid
    /\ exists.segoff = mem_data.segoff
    /\ exists.flags = mem_data.flags

\* the comparison of an existing mapping with the requested one
SameMapping(exists, mem_data) ==
    /\ exists.segid = mem_data.segid
    /\ exists.segoff = mem_data.segoff
    /\ exists.prot = mem_data.prot
    /\ exists.flags = mem_data.flags

\* pub fn mmap_memseg(&self, gpa, segid, off, len, prot)
mmap_memseg_queryerr(k, mflags, gpa, segid, off, len, prot, fl) ==
    LET mem_data == [gpa |-> gpa, segid |-> segid, segoff |-> off, len |-> len,
                     prot |-> prot, flags |-> MemmapFlags(mflags)]
        next == mmap_getnext(k, gpa, fl)
        exists == next.res.val
    IN  IF ~ next.res.ok THEN Out(k, Err(next.res.err, FALSE), next.reqs)
        ELSE IF exists.gpa = mem_data.gpa
        THEN IF SameMapping(exists, mem_data)
             THEN Out(k, Ok(TRUE), next.reqs)
             ELSE Out(k, Err(AlreadyExists, FALSE), next.reqs)
        ELSE LET r == K_mmap_memseg(k, mem_data, fl["VM_MMAP_MEMSEG"]) IN
             Out(r.k, IF r.err = "" THEN Ok(TRUE) ELSE Err(r.err, FALSE),
                 Append(next.reqs, Req("VM_MMAP_MEMSEG", r.err)))

mmap_memseg(k, mflags, gpa, segid, off, len, prot, fl) ==
    LET mem_data == [gpa |-> gpa, segid |-> segid, segoff |-> off, len |-> len,
                     prot |-> prot, flags |-> MemmapFlags(mflags)]
        next == mmap_getnext(k, gpa, fl)
        exists == next.res.val
    IN  IF next.res.ok /\ exists.gpa = mem_data.gpa
        THEN IF SameMapping(exists, mem_data)
             THEN Out(k, Ok(TRUE), next.reqs)
             ELSE Out(k, Err(AlreadyExists, FALSE), next.reqs)
        ELSE LET r == K_mmap_memseg(k, mem_data, fl["VM_MMAP_MEMSEG"]) IN
             Out(r.k, IF r.err = "" THEN Ok(TRUE) ELSE Err(r.err, FALSE),
                 Append(next.reqs, Req("VM_MMAP_MEMSEG", r.err)))

\* pub fn munmap_memseg(&self, gpa, len)
munmap_memseg(k, gpa, len, fl) ==
    LET r == K_munmap_memseg(k, gpa, len, fl["VM_MUNMAP_MEMSEG"]) IN
    Out(r.k, IF r.err = "" THEN Ok(TRUE) ELSE Err(r.err, FALSE),
        <<Req("VM_MUNMAP_MEMSEG", r.err)>>)

\* the lookup with the answer of the hypervisor not read back: the request's
\* own zeroed struct is returned
get_memseg_blind(k, segid, fl) ==
    LET r == K_get_memseg(k, segid, fl["VM_GET_MEMSEG"]) IN
    [res  |-> IF r.err = "" THEN Ok([len |-> 0, name |-> ZeroName])
                            ELSE Err(r.err, [len |-> 0, name |-> ZeroName]),
     reqs |-> <<Req("VM_GET_MEMSEG", r.err)>>]

\* fn get_memseg(&self, segid)
get_memseg(k, segid, fl) ==
    LET r == K_get_memseg(k, segid, fl["VM_GET_MEMSEG"]) IN
    [res  |-> IF r.err = "" THEN Ok([len |-> r.len, name |-> r.name])
                            ELSE Err(r.err, [len |-> 0, name |-> ZeroName]),
     reqs |-> <<Req("VM_GET_MEMSEG", r.err)>>]

\* the comparison with the name buffer taken as it is, not as a C string
SameSegment_rawname(exists, len, name) == exists.len = len /\ exists.name = name

\* the comparison of an existing segment with the requested one
SameSegment(exists, len, name) == exists.len = len /\ CStrOf(exists.name) = name

\* CString::new(name) refuses a name with an interior NUL byte
HasNul(name) == \E i \in 1..Len(name) : name[i] = 0

\* alloc_memseg with a name refused only when it is longer than the buffer
alloc_memseg_nolookup(k, segid, len, name, fl) ==
    LET look == get_memseg(k, segid, fl)
    IN  IF HasNul(name) THEN Out(k, Err(InvalidInput, FALSE), <<>>)
        ELSE IF ~ look.res.ok THEN Out(k, Err(look.res.err, FALSE), look.reqs)
        ELSE IF Len(name) > 0 /\ Len(name) >= NameBufLen
        THEN Out(k, Err(InvalidInput, FALSE), look.reqs)
        ELSE LET buf == IF Len(name) > 0 THEN CopyName(ZeroName, name) ELSE ZeroName
                 r == K_alloc_memseg(k, segid, len, buf, fl["VM_ALLOC_MEMSEG"])
             IN  Out(r.k, IF r.err = "" THEN Ok(TRUE) ELSE Err(r.err, FALSE),
                     Append(look.reqs, Req("VM_ALLOC_MEMSEG", r.err)))

alloc_memseg_unlooked(k, segid, len, name, fl) ==
    LET look == get_memseg(k, segid, fl)
        exists == look.res.val
    IN  IF HasNul(name) THEN Out(k, Err(InvalidInput, FALSE), <<>>)
        ELSE IF look.res.ok /\ exists.len # 0
        THEN IF SameSegment(exists, len, name)
             THEN Out(k, Ok(TRUE), look.reqs)
             ELSE Out(k, Err(InvalidInput, FALSE), look.reqs)
        ELSE IF Len(name) > 0 /\ Len(name) >= NameBufLen
        THEN Out(k, Err(InvalidInput, FALSE), look.reqs)
        ELSE LET buf == IF Len(name) > 0 THEN CopyName(ZeroName, name) ELSE ZeroName
                 r == K_alloc_memseg(k, segid, len, buf, fl["VM_ALLOC_MEMSEG"])
             IN  Out(r.k, IF r.err = "" THEN Ok(TRUE) ELSE Err(r.err, FALSE),
                     Append(look.reqs, Req("VM_ALLOC_MEMSEG", r.err)))

alloc_memseg_lenient(k, segid, len, name, fl) ==
    LET look == get_memseg(k, segid, fl)
        exists == look.res.val
    IN  IF HasNul(name) THEN Out(k, Err(InvalidInput, FALSE), <<>>)
        ELSE IF ~ look.res.ok THEN Out(k, Err(look.res.err, FALSE), look.reqs)
        ELSE IF exists.len # 0
        THEN IF SameSegment(exists, len, name)
             THEN Out(k, Ok(TRUE), look.reqs)
             ELSE Out(k, Err(InvalidInput, FALSE), look.reqs)
        ELSE IF Len(name) > 0 /\ Len(name) > NameBufLen
        THEN Out(k, Err(InvalidInput, FALSE), look.reqs)
        ELSE LET buf == IF Len(name) > 0 THEN CopyName(ZeroName, name) ELSE ZeroName
                 r == K_alloc_memseg(k, segid, len, buf, fl["VM_ALLOC_MEMSEG"])
             IN  Out(r.k, IF r.err = "" THEN Ok(TRUE) ELSE Err(r.err, FALSE),
                     Append(look.reqs, Req("VM_ALLOC_MEMSEG", r.err)))

\* pub fn alloc_memseg(&self, segid, len, name)
alloc_memseg(k, segid, len, name, fl) ==
    LET look == get_memseg(k, segid, fl)
        exists == look.res.val
    IN  IF HasNul(name) THEN Out(k, Err(InvalidInput, FALSE), <<>>)
        ELSE IF ~ look.res.ok THEN Out(k, Err(look.res.err, FALSE), look.reqs)
        ELSE IF exists.len # 0
        THEN IF SameSegment(exists, len, name)
             THEN Out(k, Ok(TRUE), look.reqs)
             ELSE Out(k, Err(InvalidInput, FALSE), look.reqs)
        ELSE IF Len(name) > 0 /\ Len(name) >= NameBufLen
        THEN Out(k, Err(InvalidInput, FALSE), look.reqs)
        ELSE LET buf == IF Len(name) > 0 THEN CopyName(ZeroName, name) ELSE ZeroName
                 r == K_alloc_memseg(k, segid, len, buf, fl["VM_ALLOC_MEMSEG"])
             IN  Out(r.k, IF r.err = "" THEN Ok(TRUE) ELSE Err(r.err, FALSE),
                     Append(look.reqs, Req("VM_ALLOC_MEMSEG", r.err)))

\* fn get_devmem_offset(&self, segid)
get_devmem_offset(k, segid, fl) ==
    LET r == K_devmem_getoffset(k, segid, fl["VM_DEVMEM_GETOFFSET"]) IN
    [res  |-> IF r.err = "" THEN Ok(r.offset) ELSE Err(r.err, 0),
     reqs |-> <<Req("VM_DEVMEM_GETOFFSET", r.err)>>]

\* fn add_devmem(&self, segid, name, base, len): the result of the host mmap is not looked at
add_devmem(k, segid, name, base, len, fl) ==
    LET a == alloc_memseg(k, segid, len, name, fl) IN
    IF ~ a.res.ok THEN a
    ELSE LET o == get_devmem_offset(a.k, segid, fl) IN
         IF ~ o.res.ok THEN Out(a.k, Err(o.res.err, FALSE), a.reqs \o o.reqs)
         ELSE LET h == HostMmap(a.k, base, len, o.res.val, fl["HOST_MMAP"]) IN
              Out(h.k, Ok(TRUE),
                  a.reqs \o o.reqs \o <<Req("HOST_MMAP", IF h.failed THEN "MAP_FAILED" ELSE "")>>)

\* fn add_guest_memory(&self, segid, gpa, base, len): the mapping request names VM_LOWMEM
add_guest_memory(k, mflags, segid, gpa, base, len, fl) ==
    LET a == alloc_memseg(k, segid, len, <<>>, fl) IN
    IF ~ a.res.ok THEN a
    ELSE LET prot == PROT_READ + PROT_WRITE + PROT_EXEC
             m == mmap_memseg(a.k, mflags, gpa, VM_LOWMEM, 0, len, prot, fl)
         IN  IF ~ m.res.ok THEN Out(m.k, m.res, a.reqs \o m.reqs)
             ELSE LET h == HostMmap(m.k, base, len, 0, fl["HOST_MMAP"]) IN
                  IF h.failed
                  THEN Out(h.k, Err(AddrNotAvailable, FALSE),
                           a.reqs \o m.reqs \o <<Req("HOST_MMAP", "MAP_FAILED")>>)
                  ELSE Out(h.k, Ok(TRUE), a.reqs \o m.reqs \o <<Req("HOST_MMAP", "")>>)

\* "bootrom"
BootromName == <<98, 111, 111, 116, 114, 111, 109>>

\* the bounds check with the maximum itself refused
BootromLenRejected_offbyone(len) == len >= MAX_BOOTROM_SIZE \/ len < PageSize

\* the bounds check of setup_bootrom
BootromLenRejected(len) == len > MAX_BOOTROM_SIZE \/ len < PageSize

\* pub fn setup_bootrom(&self, base, len)
setup_bootrom(k, mflags, base, len, fl) ==
    IF BootromLenRejected(len) THEN Out(k, Err(InvalidInput, FALSE), <<>>)
    ELSE LET d == add_devmem(k, VM_BOOTROM, BootromName, base, len, fl) IN
         IF ~ d.res.ok THEN d
         ELSE LET prot == PROT_READ + PROT_EXEC
                  gpa == 4 * GB - len
                  m == mmap_memseg(d.k, mflags, gpa, VM_BOOTROM, 0, len, prot, fl)
              IN  Out(m.k, m.res, d.reqs \o m.reqs)

\* pub fn setup_lowmem(&self, base, len)
setup_lowmem(k, mflags, limit, base, len, fl) ==
    IF len > limit THEN Out(k, Err(InvalidInput, FALSE), <<>>)
    ELSE add_guest_memory(k, mflags, VM_LOWMEM, 0, base, len, fl)

\* pub fn setup_highmem(&self, base, len)
setup_highmem(k, mflags, base, len, fl) ==
    add_guest_memory(k, mflags, VM_HIGHMEM, 4 * GB, base, len, fl)

-----------------------------------------------------------------------------
(* VM devices and the handle's channel: src/src/system.rs, VirtualMachine   *)
(* ::new and the File the handle owns.  Names and paths are byte strings.   *)

\* "vm0", "vm1", "./vm0", and a name with an interior NUL byte
Vm0 == <<118, 109, 48>>
Vm1 == <<118, 109, 49>>
NulName == <<118, 0, 109>>

\* format!("/dev/vmm/{}", name)
DevVmmPath(name) == <<47, 100, 101, 118, 47, 118, 109, 109, 47>> \o name

\* the components of a path: the byte strings between its '/' bytes
RECURSIVE SplitFrom(_, _, _)
SplitFrom(path, i, cur) ==
    IF i > Len(path) THEN <<cur>>
    ELSE IF path[i] = 47 THEN <<cur>> \o SplitFrom(path, i + 1, <<>>)
    ELSE SplitFrom(path, i + 1, Append(cur, path[i]))

\* path lookup from the root: empty components and "." stay, ".." goes up
RECURSIVE Walk(_, _, _)
Walk(comps, i, at) ==
    IF i > Len(comps) THEN at
    ELSE IF comps[i] = <<>> \/ comps[i] = <<46>> THEN Walk(comps, i + 1, at)
    ELSE IF comps[i] = <<46, 46>>
         THEN Walk(comps, i + 1, IF at = <<>> THEN at ELSE SubSeq(at, 1, Len(at) - 1))
    ELSE Walk(comps, i + 1, Append(at, comps[i]))

Resolve(path) == Walk(SplitFrom(path, 1, <<>>), 1, <<>>)

\* the directory /dev/vmm
DevVmmDir == Resolve(DevVmmPath(<<>>))

\* the descriptors of the process that are free for open(2), and the handles
Fds == {3, 4}
Handles == {1, 2}

\* a descriptor with nothing open on it
Closed == [chan |-> 0, dev |-> <<>>]

\* the operating-system state threaded through a lifecycle call
LState == [devices |-> devices, fdtab |-> fdtab, released |-> released]

\* VMM_CREATE_VM on /dev/vmmctl
K_create_vm(k, name) ==
    IF name \in k.devices THEN [err |-> "EEXIST", k |-> k]
    ELSE [err |-> "", k |-> [k EXCEPT !.devices = @ \cup {name}]]

\* VMM_DESTROY_VM on /dev/vmmctl
K_destroy_vm(k, name) ==
    IF name \notin k.devices THEN [err |-> "ENXIO", k |-> k]
    ELSE [err |-> "", k |-> [k EXCEPT !.devices = @ \ {name}]]

\* open(path, O_RDWR): the lowest free descriptor on a new channel chan when
\* the path leads to a VM device; -1 otherwise
K_open(k, chan, path) ==
    LET at == Resolve(path)
        free == {fd \in Fds : k.fdtab[fd] = Closed}
    IN  IF at = DevVmmDir THEN [fd |-> -1, err |-> "EISDIR", k |-> k]
        ELSE IF ~ (/\ Len(at) = Len(DevVmmDir) + 1
                   /\ SubSeq(at, 1, Len(DevVmmDir)) = DevVmmDir
                   /\ at[Len(at)] \in k.devices)
             THEN [fd |-> -1, err |-> "ENOENT", k |-> k]
        ELSE IF free = {} THEN [fd |-> -1, err |-> "EMFILE", k |-> k]
        ELSE LET fd == CHOOSE f \in free : \A g \in free : f <= g
             IN  [fd |-> fd, err |-> "",
                  k |-> [k EXCEPT !.fdtab[fd] = [chan |-> chan, dev |-> at[Len(at)]]]]

\* close(fd): releases the channel open on fd
K_close(k, fd) ==
    IF fd \notin Fds \/ k.fdtab[fd] = Closed THEN [err |-> "EBADF", k |-> k]
    ELSE [err |-> "",
          k |-> [k EXCEPT !.fdtab[fd] = Closed,
                          !.released[k.fdtab[fd].chan] = @ + 1]]

\* a request on fd: EBADF when nothing is open on it, else the hypervisor's answer f
K_ioctl(k, fd, f) ==
    IF fd \notin Fds \/ k.fdtab[fd] = Closed THEN "EBADF"
    ELSE IF f = NoFault THEN "" ELSE f

LOut(k, res, reqs) == [k |-> k, res |-> res, reqs |-> reqs]

\* pub fn create_vm(&self, name)
create_vm(k, name) ==
    IF HasNul(name) THEN LOut(k, Err(InvalidInput, FALSE), <<>>)
    ELSE LET r == K_create_vm(k, name) IN
         LOut(r.k, IF r.err = "" THEN Ok(TRUE) ELSE Err(r.err, FALSE),
              <<[req |-> "VMM_CREATE_VM", name |-> name, err |-> r.err]>>)

\* pub fn destroy_vm(&self, name)
destroy_vm(k, name) ==
    IF HasNul(name) THEN LOut(k, Err(InvalidInput, FALSE), <<>>)
    ELSE LET r == K_destroy_vm(k, name) IN
         LOut(r.k, IF r.err = "" THEN Ok(TRUE) ELSE Err(r.err, FALSE),
              <<[req |-> "VMM_DESTROY_VM", name |-> name, err |-> r.err]>>)

\* no handle: the slot of a VirtualMachine value that has not been made
NoHandle == [state |-> "none", fd |-> -1, name |-> <<>>, lowmem_limit |-> 0, memflags |-> 0]

\* pub fn new(name): the File made from the descriptor is owned by the handle
new(k, chan, name) ==
    LET path == DevVmmPath(name) IN
    IF HasNul(path) THEN LOut(k, Err(InvalidInput, NoHandle), <<>>)
    ELSE LET r == K_open(k, chan, path) IN
         IF r.fd < 0
         THEN LOut(r.k, Err(r.err, NoHandle), <<[req |-> "open", path |-> path, err |-> r.err]>>)
         ELSE LOut(r.k,
                   Ok([state |-> "live", fd |-> r.fd, name |-> name,
                       lowmem_limit |-> 3 * GB, memflags |-> 0]),
                   <<[req |-> "open", path |-> path, err |-> r.err]>>)

\* self.vm.as_raw_fd()
as_raw_fd(hd) == hd.fd

\* a method of the handle, as seen by the channel: get_memseg builds its
\* request and issues it on the handle's descriptor
get_memseg_on(k, hd, f) ==
    LET e == K_ioctl(k, as_raw_fd(hd), f) IN
    LOut(k, IF e = "" THEN Ok(TRUE) ELSE Err(e, FALSE),
         <<[req |-> "VM_GET_MEMSEG", fd |-> as_raw_fd(hd), err |-> e]>>)

\* a handle whose descriptor is not a File: the end of its scope closes nothing
drop_leaking(k, hd) ==
    LOut(k, Ok([hd EXCEPT !.state = "dropped"]), <<>>)

\* the end of the handle's scope: its fields are dropped, `vm: File` closes
\* the descriptor it owns
drop(k, hd) ==
    LET r == K_close(k, hd.fd) IN
    LOut(r.k, Ok([hd EXCEPT !.state = "dropped"]), <<[req |-> "close", fd |-> hd.fd, err |-> r.err]>>)

-----------------------------------------------------------------------------
(* Calls through the handle: the memory specification *)

\* how a call relates to the call before it
\*   "same": the same operation with the same arguments, and that call succeeded
\*   "gpa":  mmap_memseg at the gpa of the preceding, successful mmap_memseg, other arguments differing
Relation(op, args) ==
    IF last.op = op /\ last.res.ok
    THEN IF last.args = args THEN "same"
         ELSE IF op = "mmap_memseg" /\ last.args.gpa = args.gpa THEN "gpa"
         ELSE "none"
    ELSE "none"

Record(op, args, res, reqs) ==
    [op |-> op, args |-> args, res |-> res, reqs |-> reqs, rel |-> Relation(op, args)]

\* a memory call: the hypervisor and the host take the state the call left
MemCall(op, args, out) ==
    /\ ncalls < MaxMemCalls
    /\ segs' = out.k.segs
    /\ maps' = out.k.maps
    /\ hostmaps' = out.k.host
    /\ last' = Record(op, args, out.res, out.reqs)
    /\ ncalls' = ncalls + 1
    /\ UNCHANGED <<memflags, lowmem_limit, regs, descs, lifevars, threads>>

HostBases == {16 * MB}

GuestMemPlans ==
    Plans({"VM_GET_MEMSEG", "VM_ALLOC_MEMSEG", "VM_MMAP_GETNEXT", "VM_MMAP_MEMSEG", "HOST_MMAP"})

Do_alloc_memseg ==
    \E segid \in {VM_LOWMEM, VM_BOOTROM}, len \in {0, 4, 8}, name \in {<<>>, BootromName, ([i \in 1..NameBufLen |-> 97])}, fl \in Plans({"VM_GET_MEMSEG", "VM_ALLOC_MEMSEG"}) :
        MemCall("alloc_memseg", [segid |-> segid, len |-> len, name |-> name],
                alloc_memseg(KState, segid, len, name, fl))

Do_mmap_memseg ==
    \E gpa \in {0, 4}, segid \in {VM_LOWMEM, VM_BOOTROM}, off \in {0, 4}, len \in {4, 8},
       prot \in {PROT_READ + PROT_WRITE, PROT_READ + PROT_EXEC}, fl \in (Plans({"VM_MMAP_GETNEXT", "VM_MMAP_MEMSEG"}) \cup {FaultPlan({"VM_MMAP_GETNEXT", "VM_MMAP_MEMSEG"})}) :
        MemCall("mmap_memseg",
                [gpa |-> gpa, segid |-> segid, off |-> off, len |-> len, prot |-> prot],
                mmap_memseg(KState, memflags, gpa, segid, off, len, prot, fl))

Do_munmap_memseg ==
    \E gpa \in {0, 4}, len \in {4, 8}, fl \in Plans({"VM_MUNMAP_MEMSEG"}) :
        MemCall("munmap_memseg", [gpa |-> gpa, len |-> len],
                munmap_memseg(KState, gpa, len, fl))

Do_setup_bootrom ==
    \E base \in HostBases, len \in {PageSize - 1, PageSize, MAX_BOOTROM_SIZE, MAX_BOOTROM_SIZE + 1}, fl \in (Plans({"VM_GET_MEMSEG", "VM_ALLOC_MEMSEG", "VM_DEVMEM_GETOFFSET", "HOST_MMAP", "VM_MMAP_GETNEXT", "VM_MMAP_MEMSEG"})) :
        MemCall("setup_bootrom", [base |-> base, len |-> len],
                setup_bootrom(KState, memflags, base, len, fl))

Do_setup_lowmem ==
    \E base \in HostBases, len \in {4, 8}, fl \in GuestMemPlans :
        MemCall("setup_lowmem", [base |-> base, len |-> len],
                setup_lowmem(KState, memflags, lowmem_limit, base, len, fl))

Do_setup_highmem ==
    \E base \in HostBases, len \in {4, 8}, fl \in GuestMemPlans :
        MemCall("setup_highmem", [base |-> base, len |-> len],
                setup_highmem(KState, memflags, base, len, fl))

\* pub memflags: the caller writes the field
Set_memflags ==
    \E f \in {0, VM_MEM_F_WIRED} :
        /\ ncalls < MaxMemCalls
        /\ memflags' = f
        /\ last' = Record("set_memflags", [flags |-> f], Ok(TRUE), <<>>)
        /\ ncalls' = ncalls + 1
        /\ UNCHANGED <<segs, maps, hostmaps, lowmem_limit, regs, descs, lifevars, threads>>

\* pub lowmem_limit: the caller writes the field
Set_lowmem_limit ==
    \E l \in {4, DefaultLowmemLimit} :
        /\ ncalls < MaxMemCalls
        /\ lowmem_limit' = l
        /\ last' = Record("set_lowmem_limit", [limit |-> l], Ok(TRUE), <<>>)
        /\ ncalls' = ncalls + 1
        /\ UNCHANGED <<segs, maps, hostmaps, memflags, regs, descs, lifevars, threads>>

\* VirtualMachine::new: a handle with the default limit and no flags ...
NewHandle ==
    /\ memflags = 0
    /\ lowmem_limit = DefaultLowmemLimit
    /\ last = [op |-> "new", args |-> <<>>, res |-> Ok(TRUE), reqs |-> <<>>, rel |-> "none"]
    /\ ncalls = 0
    /\ devices = {Vm0}
    /\ LET o == new([devices |-> {Vm0}, fdtab |-> [fd \in Fds |-> Closed], released |-> [h \in Handles |-> 0]], 1, Vm0)
       IN  /\ fdtab = o.k.fdtab
           /\ released = o.k.released
           /\ handles = [[h \in Handles |-> NoHandle] EXCEPT ![1] = o.res.val]

\* ... on a VM that is fresh, or whose segments a loader has allocated already
FreshSegs == [r \in MemSegId |-> Absent]
LoaderSegs ==
    [r \in MemSegId |->
        IF r = VM_LOWMEM THEN [len |-> 8, name |-> <<>>]
        ELSE IF r = VM_BOOTROM THEN [len |-> 8, name |-> BootromName]
        ELSE Absent]

InitMem ==
    /\ NewHandle
    /\ threads = <<>>
    /\ segs \in {FreshSegs, LoaderSegs}
    /\ maps = {}
    /\ hostmaps = {}
    /\ regs = <<>>
    /\ descs = <<>>

NextMem ==
    \/ Do_alloc_memseg
    \/ Do_mmap_memseg
    \/ Do_munmap_memseg
    \/ Do_setup_bootrom
    \/ Do_setup_lowmem
    \/ Do_setup_highmem
    \/ Set_memflags
    \/ Set_lowmem_limit

SpecMem == InitMem /\ [][NextMem]_vars

-----------------------------------------------------------------------------
(* vCPU registers and descriptor registers *)

\* enum vm_reg_name, in declaration order
vm_reg_name ==
    << "VM_REG_GUEST_RAX", "VM_REG_GUEST_RBX", "VM_REG_GUEST_RCX", "VM_REG_GUEST_RDX",
       "VM_REG_GUEST_RSI", "VM_REG_GUEST_RDI", "VM_REG_GUEST_RBP", "VM_REG_GUEST_R8",
       "VM_REG_GUEST_R9", "VM_REG_GUEST_R10", "VM_REG_GUEST_R11", "VM_REG_GUEST_R12",
       "VM_REG_GUEST_R13", "VM_REG_GUEST_R14", "VM_REG_GUEST_R15", "VM_REG_GUEST_CR0",
       "VM_REG_GUEST_CR3", "VM_REG_GUEST_CR4", "VM_REG_GUEST_DR7", "VM_REG_GUEST_RSP",
       "VM_REG_GUEST_RIP", "VM_REG_GUEST_RFLAGS", "VM_REG_GUEST_ES", "VM_REG_GUEST_CS",
       "VM_REG_GUEST_SS", "VM_REG_GUEST_DS", "VM_REG_GUEST_FS", "VM_REG_GUEST_GS",
       "VM_REG_GUEST_LDTR", "VM_REG_GUEST_TR", "VM_REG_GUEST_IDTR", "VM_REG_GUEST_GDTR",
       "VM_REG_GUEST_EFER", "VM_REG_GUEST_CR2", "VM_REG_GUEST_PDPTE0", "VM_REG_GUEST_PDPTE1",
       "VM_REG_GUEST_PDPTE2", "VM_REG_GUEST_PDPTE3", "VM_REG_GUEST_INTR_SHADOW",
       "VM_REG_GUEST_DR0", "VM_REG_GUEST_DR1", "VM_REG_GUEST_DR2", "VM_REG_GUEST_DR3",
       "VM_REG_GUEST_DR6" >>

RegNames == {vm_reg_name[i] : i \in 1..Len(vm_reg_name)}

\* the registers that have a descriptor: segment, task and table registers
DescRegs ==
    {"VM_REG_GUEST_ES", "VM_REG_GUEST_CS", "VM_REG_GUEST_SS", "VM_REG_GUEST_DS",
     "VM_REG_GUEST_FS", "VM_REG_GUEST_GS", "VM_REG_GUEST_LDTR", "VM_REG_GUEST_TR",
     "VM_REG_GUEST_IDTR", "VM_REG_GUEST_GDTR"}

\* the vCPUs of the VM
Vcpus == {0, 1}

CR0_NE == 32

\* a 32-bit address as its two 16-bit halves: 0xHHHHLLLL is Addr(0xHHHH, 0xLLLL)
Addr(hi, lo) == [hi |-> hi, lo |-> lo]

\* struct seg_desc
SegDesc(base, limit, access) == [base |-> base, limit |-> limit, access |-> access]

\* the errnos a failing register request is answered with
CpuErrnos == {"EINVAL", "EBUSY"}
CpuFaults == {NoFault} \cup CpuErrnos

\* the hypervisor-side vCPU state threaded through a call
CState == [regs |-> regs, descs |-> descs]

\* VM_SET_REGISTER
K_set_register(c, cpuid, regnum, regval, f) ==
    IF f # NoFault THEN [err |-> f, c |-> c]
    ELSE [err |-> "", c |-> [c EXCEPT !.regs[cpuid][regnum] = regval]]

\* VM_GET_REGISTER
K_get_register(c, cpuid, regnum, f) ==
    IF f # NoFault THEN [err |-> f, regval |-> 0]
    ELSE [err |-> "", regval |-> c.regs[cpuid][regnum]]

\* VM_SET_SEGMENT_DESCRIPTOR
K_set_desc(c, cpuid, regnum, desc, f) ==
    IF f # NoFault THEN [err |-> f, c |-> c]
    ELSE IF regnum \notin DescRegs THEN [err |-> "EINVAL", c |-> c]
    ELSE [err |-> "", c |-> [c EXCEPT !.descs[cpuid][regnum] = desc]]

\* VM_GET_SEGMENT_DESCRIPTOR
K_get_desc(c, cpuid, regnum, f) ==
    IF f # NoFault THEN [err |-> f, desc |-> SegDesc(Addr(0, 0), 0, 0)]
    ELSE IF regnum \notin DescRegs THEN [err |-> "EINVAL", desc |-> SegDesc(Addr(0, 0), 0, 0)]
    ELSE [err |-> "", desc |-> c.descs[cpuid][regnum]]

COut(c, res, reqs) == [c |-> c, res |-> res, reqs |-> reqs]

\* set_desc with limit and access in each other's field of the request
set_desc_selector(c, vcpu_id, reg, base, limit, access, f) ==
    LET seg_data == [cpuid |-> vcpu_id, regnum |-> reg, desc |-> SegDesc(base, limit, access)]
        r == K_set_desc(c, seg_data.cpuid, seg_data.regnum, seg_data.desc, f)
        s == K_set_register(r.c, seg_data.cpuid, seg_data.regnum, 0, f)
    IN  COut(s.c, IF r.err = "" THEN Ok(TRUE) ELSE Err(r.err, FALSE),
             <<[req |-> "VM_SET_SEGMENT_DESCRIPTOR", data |-> seg_data, err |-> r.err]>>)

set_desc_swapped(c, vcpu_id, reg, base, limit, access, f) ==
    LET seg_data == [cpuid |-> vcpu_id, regnum |-> reg, desc |-> SegDesc(base, access, limit)]
        r == K_set_desc(c, seg_data.cpuid, seg_data.regnum, seg_data.desc, f)
    IN  COut(r.c, IF r.err = "" THEN Ok(TRUE) ELSE Err(r.err, FALSE),
             <<[req |-> "VM_SET_SEGMENT_DESCRIPTOR", data |-> seg_data, err |-> r.err]>>)

\* pub fn set_desc(&self, vcpu_id, reg, base, limit, access)
set_desc(c, vcpu_id, reg, base, limit, access, f) ==
    LET seg_data == [cpuid |-> vcpu_id, regnum |-> reg, desc |-> SegDesc(base, limit, access)]
        r == K_set_desc(c, seg_data.cpuid, seg_data.regnum, seg_data.desc, f)
    IN  COut(r.c, IF r.err = "" THEN Ok(TRUE) ELSE Err(r.err, FALSE),
             <<[req |-> "VM_SET_SEGMENT_DESCRIPTOR", data |-> seg_data, err |-> r.err]>>)

\* pub fn get_desc(&self, vcpu_id, reg)
get_desc(c, vcpu_id, reg, f) ==
    LET r == K_get_desc(c, vcpu_id, reg, f) IN
    COut(c, IF r.err = "" THEN Ok(r.desc) ELSE Err(r.err, SegDesc(Addr(0, 0), 0, 0)),
         <<[req |-> "VM_GET_SEGMENT_DESCRIPTOR", data |-> [cpuid |-> vcpu_id, regnum |-> reg],
            err |-> r.err]>>)

\* set_register with the vCPU index left out of the request
set_register_cpu0(c, vcpu_id, reg, val, f) ==
    LET reg_data == [cpuid |-> 0, regnum |-> reg, regval |-> val]
        r == K_set_register(c, reg_data.cpuid, reg_data.regnum, reg_data.regval, f)
    IN  COut(r.c, IF r.err = "" THEN Ok(TRUE) ELSE Err(r.err, FALSE),
             <<[req |-> "VM_SET_REGISTER", data |-> reg_data, err |-> r.err]>>)

\* pub fn set_register(&self, vcpu_id, reg, val)
set_register(c, vcpu_id, reg, val, f) ==
    LET reg_data == [cpuid |-> vcpu_id, regnum |-> reg, regval |-> val]
        r == K_set_register(c, reg_data.cpuid, reg_data.regnum, reg_data.regval, f)
    IN  COut(r.c, IF r.err = "" THEN Ok(TRUE) ELSE Err(r.err, FALSE),
             <<[req |-> "VM_SET_REGISTER", data |-> reg_data, err |-> r.err]>>)

\* get_register with the vCPU index left out of the request
get_register_cpu0(c, vcpu_id, reg, f) ==
    LET r == K_get_register(c, 0, reg, f) IN
    COut(c, IF r.err = "" THEN Ok(r.regval) ELSE Err(r.err, 0),
         <<[req |-> "VM_GET_REGISTER", data |-> [cpuid |-> 0, regnum |-> reg],
            err |-> r.err]>>)

\* pub fn get_register(&self, vcpu_id, reg)
get_register(c, vcpu_id, reg, f) ==
    LET r == K_get_register(c, vcpu_id, reg, f) IN
    COut(c, IF r.err = "" THEN Ok(r.regval) ELSE Err(r.err, 0),
         <<[req |-> "VM_GET_REGISTER", data |-> [cpuid |-> vcpu_id, regnum |-> reg],
            err |-> r.err]>>)

\* one write of vcpu_reset
RegWrite(reg, val) == [kind |-> "reg", reg |-> reg, val |-> val]
DescWrite(reg, base, limit, access) ==
    [kind |-> "desc", reg |-> reg, desc |-> SegDesc(base, limit, access)]

\* the control-register writes with CR0 cleared instead of set to CR0_NE
ResetControl_cr0clear ==
    << RegWrite("VM_REG_GUEST_RFLAGS", 2),
       RegWrite("VM_REG_GUEST_RIP", 65520),
       RegWrite("VM_REG_GUEST_CR0", 0),
       RegWrite("VM_REG_GUEST_CR3", 0),
       RegWrite("VM_REG_GUEST_CR4", 0) >>

\* vcpu_reset: flags, instruction pointer and control registers
ResetControl ==
    << RegWrite("VM_REG_GUEST_RFLAGS", 2),
       RegWrite("VM_REG_GUEST_RIP", 65520),
       RegWrite("VM_REG_GUEST_CR0", CR0_NE),
       RegWrite("VM_REG_GUEST_CR3", 0),
       RegWrite("VM_REG_GUEST_CR4", 0) >>

\* vcpu_reset: CS descriptor and selector, then the data segments
ResetSegments ==
    << DescWrite("VM_REG_GUEST_CS", Addr(65535, 0), 65535, 147),
       RegWrite("VM_REG_GUEST_CS", 61440),
       DescWrite("VM_REG_GUEST_SS", Addr(0, 0), 65535, 147),
       DescWrite("VM_REG_GUEST_DS", Addr(0, 0), 65535, 147),
       DescWrite("VM_REG_GUEST_ES", Addr(0, 0), 65535, 147),
       DescWrite("VM_REG_GUEST_FS", Addr(0, 0), 65535, 147),
       DescWrite("VM_REG_GUEST_GS", Addr(0, 0), 65535, 147),
       RegWrite("VM_REG_GUEST_SS", 0),
       RegWrite("VM_REG_GUEST_DS", 0),
       RegWrite("VM_REG_GUEST_ES", 0),
       RegWrite("VM_REG_GUEST_FS", 0),
       RegWrite("VM_REG_GUEST_GS", 0) >>

\* vcpu_reset: general purpose registers
ResetGeneral ==
    << RegWrite("VM_REG_GUEST_RAX", 0),
       RegWrite("VM_REG_GUEST_RBX", 0),
       RegWrite("VM_REG_GUEST_RCX", 0),
       RegWrite("VM_REG_GUEST_RDX", 3840),
       RegWrite("VM_REG_GUEST_RSI", 0),
       RegWrite("VM_REG_GUEST_RDI", 0),
       RegWrite("VM_REG_GUEST_RBP", 0),
       RegWrite("VM_REG_GUEST_RSP", 0) >>

\* vcpu_reset: GDTR, IDTR, TR and LDTR
ResetTables ==
    << DescWrite("VM_REG_GUEST_GDTR", Addr(0, 0), 65535, 0),
       DescWrite("VM_REG_GUEST_IDTR", Addr(0, 0), 65535, 0),
       DescWrite("VM_REG_GUEST_TR", Addr(0, 0), 0, 139),
       RegWrite("VM_REG_GUEST_TR", 0),
       DescWrite("VM_REG_GUEST_LDTR", Addr(0, 0), 65535, 130),
       RegWrite("VM_REG_GUEST_LDTR", 0) >>

\* the writes of vcpu_reset, in program order
ResetWrites == ResetControl \o ResetSegments \o ResetGeneral \o ResetTables

ResetFault(plan, reqs) == IF plan.at = Len(reqs) + 1 THEN plan.err ELSE NoFault

\* the statements of vcpu_reset from the i-th on, with a failed write passed over
\* and the next one tried
RECURSIVE ResetFrom_ignoring(_, _, _, _, _)
ResetFrom_ignoring(c, vcpu_id, i, plan, reqs) ==
    IF i > Len(ResetWrites) THEN COut(c, Ok(TRUE), reqs)
    ELSE LET w == ResetWrites[i]
             f == ResetFault(plan, reqs)
             r == IF w.kind = "reg"
                  THEN set_register(c, vcpu_id, w.reg, w.val, f)
                  ELSE set_desc(c, vcpu_id, w.reg, w.desc.base, w.desc.limit, w.desc.access, f)
         IN  ResetFrom_ignoring(r.c, vcpu_id, i + 1, plan, reqs \o r.reqs)

\* the statements of vcpu_reset from the i-th on: each write ends the call when it fails (`?`)
RECURSIVE ResetFrom(_, _, _, _, _)
ResetFrom(c, vcpu_id, i, plan, reqs) ==
    IF i > Len(ResetWrites) THEN COut(c, Ok(TRUE), reqs)
    ELSE LET w == ResetWrites[i]
             f == ResetFault(plan, reqs)
             r == IF w.kind = "reg"
                  THEN set_register(c, vcpu_id, w.reg, w.val, f)
                  ELSE set_desc(c, vcpu_id, w.reg, w.desc.base, w.desc.limit, w.desc.access, f)
         IN  IF ~ r.res.ok THEN COut(r.c, r.res, reqs \o r.reqs)
             ELSE ResetFrom(r.c, vcpu_id, i + 1, plan, reqs \o r.reqs)

\* pub fn vcpu_reset(&self, vcpu_id)
vcpu_reset(c, vcpu_id, plan) == ResetFrom(c, vcpu_id, 1, plan, <<>>)

-----------------------------------------------------------------------------
(* Properties of the memory operations *)

\* kind is among the requests of a call
Issued(reqs, kind) == \E i \in 1..Len(reqs) : reqs[i].req = kind

\* the channel failed the call's request of that kind
Faulted(reqs, kind) ==
    \E i \in 1..Len(reqs) : reqs[i].req = kind /\ reqs[i].err = ChannelErrno(kind)

\* this step is a call of op through the handle
Calls(op) == ncalls' = ncalls + 1 /\ last'.op = op

\* this step is a call of op that follows a successful call of the same op
CallsAgain(op) == last.op = op /\ last.res.ok /\ Calls(op)

\* C1: when alloc_memseg(role, length, name) has succeeded, a second
\* alloc_memseg with the same three arguments (its lookup answered by the
\* hypervisor) succeeds, issues no VM_ALLOC_MEMSEG request and leaves the
\* segment table, length and name of every role, as the first call left it.
C1_AllocIdempotent ==
    [][(/\ CallsAgain("alloc_memseg")
        /\ last'.args = last.args
        /\ ~ Faulted(last'.reqs, "VM_GET_MEMSEG"))
       => (/\ last'.res.ok
           /\ ~ Issued(last'.reqs, "VM_ALLOC_MEMSEG")
           /\ segs' = segs)]_vars

\* a second, identical alloc_memseg of a named segment was answered from the lookup alone
C1_Witness ==
    /\ last.op = "alloc_memseg"
    /\ last.rel = "same"
    /\ last.res.ok
    /\ last.args.len > 0
    /\ last.args.name = BootromName
    /\ last.reqs = <<Req("VM_GET_MEMSEG", "")>>
    /\ segs[last.args.segid] = [len |-> last.args.len, name |-> BootromName]

\* C2: after alloc_memseg(role, L1, N1) has succeeded with L1 > 0, an
\* alloc_memseg(role, L2, N2) with (L2, N2) # (L1, N1) fails with the Conflict
\* kind (the kind a differing mapping is reported with, AlreadyExists, and not
\* the InvalidInput of a malformed argument), issues no VM_ALLOC_MEMSEG request
\* and leaves the segment present with exactly (L1, N1).
C2_AllocConflictKind ==
    [][(/\ CallsAgain("alloc_memseg")
        /\ last.args.len > 0
        /\ last'.args.segid = last.args.segid
        /\ <<last'.args.len, last'.args.name>> # <<last.args.len, last.args.name>>
        /\ ~ Faulted(last'.reqs, "VM_GET_MEMSEG"))
       => (/\ ~ last'.res.ok
           /\ last'.res.err = AlreadyExists
           /\ ~ Issued(last'.reqs, "VM_ALLOC_MEMSEG")
           /\ segs'[last.args.segid] = [len |-> last.args.len, name |-> last.args.name])]_vars

\* C3: when mmap_memseg(gpa, role, off, len, prot) has succeeded and the
\* handle's memflags are as they were, a second call with identical arguments
\* (its lookup answered) succeeds without a VM_MMAP_MEMSEG request and without
\* changing the mapping table; a second call at the same gpa with a different
\* prot fails with AlreadyExists and leaves the mappings unchanged.
C3_MmapIdempotent ==
    [][(/\ CallsAgain("mmap_memseg")
        /\ memflags' = memflags
        /\ last'.args.gpa = last.args.gpa
        /\ ~ Faulted(last'.reqs, "VM_MMAP_GETNEXT"))
       => (/\ last'.args = last.args
              => (/\ last'.res.ok
                  /\ ~ Issued(last'.reqs, "VM_MMAP_MEMSEG")
                  /\ maps' = maps)
           /\ last'.args.prot # last.args.prot
              => (/\ ~ last'.res.ok
                  /\ last'.res.err = AlreadyExists
                  /\ maps' = maps))]_vars

\* a second, identical mmap_memseg was answered from the lookup alone
C3_Witness ==
    /\ last.op = "mmap_memseg"
    /\ last.rel = "same"
    /\ last.res.ok
    /\ last.reqs = <<Req("VM_MMAP_GETNEXT", "")>>
    /\ \E m \in maps : /\ m.gpa = last.args.gpa
                       /\ m.segid = last.args.segid
                       /\ m.segoff = last.args.off
                       /\ m.len = last.args.len
                       /\ m.prot = last.args.prot

\* C4: a mmap_memseg at a guest-physical address where a mapping already
\* starts reports success only when the request equals that mapping in every
\* field: segment, offset, length, protection and wired flag.
C4_MmapDuplicateInEveryField ==
    [][(/\ Calls("mmap_memseg")
        /\ last'.res.ok)
       => \A m \in maps :
            m.gpa = last'.args.gpa
            => m = [gpa |-> last'.args.gpa, segid |-> last'.args.segid,
                    segoff |-> last'.args.off, len |-> last'.args.len,
                    prot |-> last'.args.prot, flags |-> MemmapFlags(memflags)]]_vars

\* C10: setup_bootrom(base, len) with len below one page or above 16 MiB fails
\* with InvalidInput, issues no request and changes neither the segment table
\* nor the guest or host mappings; with len exactly one page or exactly 16 MiB
\* the call is not refused by that check and goes on to its first request.
C10_BootromBounds ==
    [][Calls("setup_bootrom")
       => (/\ (last'.args.len < PageSize \/ last'.args.len > 16 * MB)
              => (/\ ~ last'.res.ok
                  /\ last'.res.err = InvalidInput
                  /\ last'.reqs = <<>>
                  /\ segs' = segs /\ maps' = maps /\ hostmaps' = hostmaps)
           /\ (last'.args.len = PageSize \/ last'.args.len = 16 * MB)
              => (/\ last'.reqs # <<>>
                  /\ last'.reqs[1].req = "VM_GET_MEMSEG"))]_vars

\* a boot ROM one KiB above the maximum was refused on a VM without segments, and none was created
C10_Witness ==
    /\ last.op = "setup_bootrom"
    /\ last.args.len = MAX_BOOTROM_SIZE + 1
    /\ last.res.err = InvalidInput
    /\ last.reqs = <<>>
    /\ segs = FreshSegs
    /\ maps = {}
    /\ hostmaps = {}

-----------------------------------------------------------------------------
(* Calls through the handle: the vCPU specification *)

\* a vCPU call: the hypervisor takes the register state the call left
CpuCall(op, args, out) ==
    /\ ncalls < MaxCpuCalls
    /\ regs' = out.c.regs
    /\ descs' = out.c.descs
    /\ last' = [op |-> op, args |-> args, res |-> out.res, reqs |-> out.reqs, rel |-> "none"]
    /\ ncalls' = ncalls + 1
    /\ UNCHANGED <<segs, maps, hostmaps, memflags, lowmem_limit, lifevars, threads>>

\* a vCPU that has not run: every register and descriptor is 0
CleanRegs == [r \in RegNames |-> 0]
CleanDescs == [r \in DescRegs |-> SegDesc(Addr(0, 0), 0, 0)]

\* a vCPU that a guest has run on: every register and descriptor holds a leftover
UsedDesc == SegDesc(Addr(23130, 23130), 23130, 65536)
UsedRegs == [r \in RegNames |-> 23130]
UsedDescs == [r \in DescRegs |-> UsedDesc]

Do_set_register ==
    \E v \in Vcpus, reg \in {"VM_REG_GUEST_RAX", "VM_REG_GUEST_R8", "VM_REG_GUEST_CS"}, val \in {0, 23130}, f \in CpuFaults :
        CpuCall("set_register", [cpuid |-> v, reg |-> reg, val |-> val],
                set_register(CState, v, reg, val, f))

Do_get_register ==
    \E v \in Vcpus, reg \in {"VM_REG_GUEST_RAX", "VM_REG_GUEST_R8", "VM_REG_GUEST_CS"}, f \in CpuFaults :
        CpuCall("get_register", [cpuid |-> v, reg |-> reg],
                get_register(CState, v, reg, f))

Do_set_desc ==
    \E v \in Vcpus, reg \in {"VM_REG_GUEST_CS", "VM_REG_GUEST_GDTR"}, d \in {SegDesc(Addr(0, 0), 65535, 147), UsedDesc}, f \in CpuFaults :
        CpuCall("set_desc", [cpuid |-> v, reg |-> reg, desc |-> d],
                set_desc(CState, v, reg, d.base, d.limit, d.access, f))

Do_get_desc ==
    \E v \in Vcpus, reg \in {"VM_REG_GUEST_CS", "VM_REG_GUEST_GDTR"}, f \in CpuFaults :
        CpuCall("get_desc", [cpuid |-> v, reg |-> reg],
                get_desc(CState, v, reg, f))

Do_vcpu_reset ==
    \E v \in Vcpus, plan \in ({[at |-> 0, err |-> NoFault]} \cup {[at |-> n, err |-> e] : n \in 1..Len(ResetWrites), e \in CpuErrnos}) :
        CpuCall("vcpu_reset", [cpuid |-> v], vcpu_reset(CState, v, plan))

\* the handle of a VM whose vCPUs are clean or have been used
InitCpu ==
    /\ NewHandle
    /\ threads = <<>>
    /\ segs = FreshSegs
    /\ maps = {}
    /\ hostmaps = {}
    /\ \E used \in SUBSET Vcpus :
        /\ regs = [v \in Vcpus |-> IF v \in used THEN UsedRegs ELSE CleanRegs]
        /\ descs = [v \in Vcpus |-> IF v \in used THEN UsedDescs ELSE CleanDescs]

NextCpu ==
    \/ Do_set_register
    \/ Do_get_register
    \/ Do_set_desc
    \/ Do_get_desc
    \/ Do_vcpu_reset

SpecCpu == InitCpu /\ [][NextCpu]_vars

-----------------------------------------------------------------------------
(* Properties of vcpu_reset *)

\* the value get_register reads now
ReadsReg(v, reg, val) == get_register(CState, v, reg, NoFault).res = Ok(val)

\* the descriptor get_desc reads now
DescRead(v, reg) == get_desc(CState, v, reg, NoFault).res

\* C7: after vcpu_reset(vcpu) has returned success, whatever the vCPU held
\* before, get_register reads CS = 0xF000, RIP = 0xFFF0, CR0 = 0x20 (the
\* numeric-error bit alone), RDX = 0xF00, CR3 = 0 and CR4 = 0; get_desc reads
\* the CS descriptor with base 0xFFFF0000 and limit 0xFFFF, and GDTR and IDTR
\* with base 0 and limit 0xFFFF.
C7_ResetPowerUpState ==
    (last.op = "vcpu_reset" /\ last.res.ok)
    => LET v == last.args.cpuid IN
       /\ ReadsReg(v, "VM_REG_GUEST_CS", 61440)
       /\ ReadsReg(v, "VM_REG_GUEST_RIP", 65520)
       /\ ReadsReg(v, "VM_REG_GUEST_CR0", 32)
       /\ ReadsReg(v, "VM_REG_GUEST_RDX", 3840)
       /\ ReadsReg(v, "VM_REG_GUEST_CR3", 0)
       /\ ReadsReg(v, "VM_REG_GUEST_CR4", 0)
       /\ DescRead(v, "VM_REG_GUEST_CS").ok
       /\ DescRead(v, "VM_REG_GUEST_CS").val.base = [hi |-> 65535, lo |-> 0]
       /\ DescRead(v, "VM_REG_GUEST_CS").val.limit = 65535
       /\ \A t \in {"VM_REG_GUEST_GDTR", "VM_REG_GUEST_IDTR"} :
            /\ DescRead(v, t).ok
            /\ DescRead(v, t).val.base = [hi |-> 0, lo |-> 0]
            /\ DescRead(v, t).val.limit = 65535

\* a used vCPU was reset with all 31 writes answered, and now reads the power-up CS and RIP
C7_Witness ==
    /\ last.op = "vcpu_reset"
    /\ last.res.ok
    /\ Len(last.reqs) = 31
    /\ regs[last.args.cpuid]["VM_REG_GUEST_CR2"] = 23130
    /\ regs[last.args.cpuid]["VM_REG_GUEST_CS"] = 61440
    /\ regs[last.args.cpuid]["VM_REG_GUEST_RIP"] = 65520
    /\ descs[last.args.cpuid]["VM_REG_GUEST_CS"].base = [hi |-> 65535, lo |-> 0]

\* C8: after vcpu_reset(vcpu) has returned success, every general purpose
\* register of that vCPU other than RDX (RAX, RBX, RCX, RSI, RDI, RBP, RSP and
\* R8 to R15) reads 0, whatever it held before.
C8_ResetZeroesGeneralRegisters ==
    (last.op = "vcpu_reset" /\ last.res.ok)
    => \A r \in {"VM_REG_GUEST_RAX", "VM_REG_GUEST_RBX", "VM_REG_GUEST_RCX",
                 "VM_REG_GUEST_RSI", "VM_REG_GUEST_RDI", "VM_REG_GUEST_RBP",
                 "VM_REG_GUEST_RSP", "VM_REG_GUEST_R8", "VM_REG_GUEST_R9",
                 "VM_REG_GUEST_R10", "VM_REG_GUEST_R11", "VM_REG_GUEST_R12",
                 "VM_REG_GUEST_R13", "VM_REG_GUEST_R14", "VM_REG_GUEST_R15"} :
          ReadsReg(last.args.cpuid, r, 0)

\* the register or descriptor that the i-th entry of a request log wrote
Wrote(entry, w) ==
    /\ entry.req = (IF w.kind = "reg" THEN "VM_SET_REGISTER" ELSE "VM_SET_SEGMENT_DESCRIPTOR")
    /\ entry.data.regnum = w.reg
    /\ IF w.kind = "reg" THEN entry.data.regval = w.val ELSE entry.data.desc = w.desc

\* C9: vcpu_reset issues its writes in one fixed order; when the k-th write
\* fails the call returns that write's error as it is, the requests issued are
\* exactly writes 1..k, each once (nothing after the k-th, no second attempt),
\* writes 1..k-1 stay applied and everything else is as it was.
C9_ResetStopsAtFirstFailure ==
    [][(Calls("vcpu_reset") /\ \E i \in 1..Len(last'.reqs) : last'.reqs[i].err # "")
       => LET v == last'.args.cpuid
              log == last'.reqs
              k == CHOOSE i \in 1..Len(log) :
                       log[i].err # "" /\ \A j \in 1..(i - 1) : log[j].err = ""
              done == 1..(k - 1)
          IN  /\ ~ last'.res.ok
              /\ Len(log) = k
              /\ k \in 1..Len(ResetWrites)
              /\ \A i \in 1..k :
                    /\ Wrote(log[i], ResetWrites[i])
                    /\ log[i].data.cpuid = v
                    /\ (log[i].err = "") = (i < k)
              /\ last'.res.err = log[k].err
              /\ \A r \in RegNames :
                    regs'[v][r] =
                        IF \E i \in done : ResetWrites[i].kind = "reg" /\ ResetWrites[i].reg = r
                        THEN ResetWrites[CHOOSE i \in done :
                                 ResetWrites[i].kind = "reg" /\ ResetWrites[i].reg = r].val
                        ELSE regs[v][r]
              /\ \A r \in DescRegs :
                    descs'[v][r] =
                        IF \E i \in done : ResetWrites[i].kind = "desc" /\ ResetWrites[i].reg = r
                        THEN ResetWrites[CHOOSE i \in done :
                                 ResetWrites[i].kind = "desc" /\ ResetWrites[i].reg = r].desc
                        ELSE descs[v][r]
              /\ \A o \in Vcpus \ {v} : regs'[o] = regs[o] /\ descs'[o] = descs[o]]_vars

\* on a used vCPU the write of the CS selector, the 7th, failed: the CS descriptor
\* is the power-up one, the selector and the data segments are as they were
C9_Witness ==
    /\ last.op = "vcpu_reset"
    /\ ~ last.res.ok
    /\ Len(last.reqs) = 7
    /\ last.res.err = "EBUSY"
    /\ descs[last.args.cpuid]["VM_REG_GUEST_CS"] = SegDesc(Addr(65535, 0), 65535, 147)
    /\ regs[last.args.cpuid]["VM_REG_GUEST_CS"] = 23130
    /\ descs[last.args.cpuid]["VM_REG_GUEST_SS"] = UsedDesc
    /\ regs[last.args.cpuid]["VM_REG_GUEST_CR0"] = 32

-----------------------------------------------------------------------------
(* run: the exit of a vCPU *)

\* enum vm_exitcode, in declaration order: the codes 0 .. 24
vm_exitcode ==
    << "VM_EXITCODE_INOUT", "VM_EXITCODE_VMX", "VM_EXITCODE_BOGUS", "VM_EXITCODE_RDMSR",
       "VM_EXITCODE_WRMSR", "VM_EXITCODE_HLT", "VM_EXITCODE_MTRAP", "VM_EXITCODE_PAUSE",
       "VM_EXITCODE_PAGING", "VM_EXITCODE_INST_EMUL", "VM_EXITCODE_SPINUP_AP",
       "VM_EXITCODE_DEPRECATED1", "VM_EXITCODE_RUNBLOCK", "VM_EXITCODE_IOAPIC_EOI",
       "VM_EXITCODE_SUSPENDED", "VM_EXITCODE_INOUT_STR", "VM_EXITCODE_TASK_SWITCH",
       "VM_EXITCODE_MONITOR", "VM_EXITCODE_MWAIT", "VM_EXITCODE_SVM", "VM_EXITCODE_REQIDLE",
       "VM_EXITCODE_DEBUG", "VM_EXITCODE_VMINSN", "VM_EXITCODE_HT", "VM_EXITCODE_MAX" >>

\* enum VmExit, in declaration order
VmExit ==
    << "InOut", "Vmx", "Bogus", "RdMsr", "WrMsr", "Halt", "Mtrap", "Pause", "Paging",
       "InstEmul", "SpinupAp", "Deprecated", "RunBlock", "IoApicEoi", "Suspended",
       "InOutStr", "TaskSwitch", "Monitor", "Mwait", "Svm", "ReqIdle", "Debug", "VmInsn",
       "Ht", "Max" >>

\* a value of VmExit: the variant and its fields
Exit(kind, fields) == [kind |-> kind, f |-> fields]

NoExit == Exit("", <<>>)

\* the tag is the discriminant of a variant of vm_exitcode
DefinedTag(tag) == tag \in 0..(Len(vm_exitcode) - 1)

\* union vm_exit_payload as the members that run reads: inout_str begins with
\* an inout, which lies over the member inout
Payload(io, vx) == [inout |-> io, inout_str |-> [inout |-> io], vmx |-> vx]

\* the arm VM_EXITCODE_INOUT
InOutExit(u) == LET io == u.inout IN Exit("InOut", <<io.port, io.eax>>)

\* the arm VM_EXITCODE_INOUT_STR
InOutStrExit(u) == LET io == u.inout_str.inout IN Exit("InOutStr", <<io.port, io.eax>>)

\* the arm with inst_type and inst_error taken from each other's field
VmxExit_swapped(u) ==
    Exit("Vmx", <<u.vmx.status, u.vmx.exit_reason, u.vmx.exit_qualification,
                  u.vmx.inst_error, u.vmx.inst_type>>)

\* the arm VM_EXITCODE_VMX
VmxExit(u) ==
    Exit("Vmx", <<u.vmx.status, u.vmx.exit_reason, u.vmx.exit_qualification,
                  u.vmx.inst_type, u.vmx.inst_error>>)

\* match run_data.vm_exit.exitcode { .. }: one arm for each variant of vm_exitcode
MatchExitcode(exitcode, u) ==
    CASE exitcode = "VM_EXITCODE_INOUT" -> InOutExit(u)
      [] exitcode = "VM_EXITCODE_VMX" -> VmxExit(u)
      [] exitcode = "VM_EXITCODE_BOGUS" -> Exit("Bogus", <<>>)
      [] exitcode = "VM_EXITCODE_RDMSR" -> Exit("RdMsr", <<>>)
      [] exitcode = "VM_EXITCODE_WRMSR" -> Exit("WrMsr", <<>>)
      [] exitcode = "VM_EXITCODE_HLT" -> Exit("Halt", <<>>)
      [] exitcode = "VM_EXITCODE_MTRAP" -> Exit("Mtrap", <<>>)
      [] exitcode = "VM_EXITCODE_PAUSE" -> Exit("Pause", <<>>)
      [] exitcode = "VM_EXITCODE_PAGING" -> Exit("Paging", <<>>)
      [] exitcode = "VM_EXITCODE_INST_EMUL" -> Exit("InstEmul", <<>>)
      [] exitcode = "VM_EXITCODE_SPINUP_AP" -> Exit("SpinupAp", <<>>)
      [] exitcode = "VM_EXITCODE_DEPRECATED1" -> Exit("Deprecated", <<>>)
      [] exitcode = "VM_EXITCODE_RUNBLOCK" -> Exit("RunBlock", <<>>)
      [] exitcode = "VM_EXITCODE_IOAPIC_EOI" -> Exit("IoApicEoi", <<>>)
      [] exitcode = "VM_EXITCODE_SUSPENDED" -> Exit("Suspended", <<>>)
      [] exitcode = "VM_EXITCODE_INOUT_STR" -> InOutStrExit(u)
      [] exitcode = "VM_EXITCODE_TASK_SWITCH" -> Exit("TaskSwitch", <<>>)
      [] exitcode = "VM_EXITCODE_MONITOR" -> Exit("Monitor", <<>>)
      [] exitcode = "VM_EXITCODE_MWAIT" -> Exit("Mwait", <<>>)
      [] exitcode = "VM_EXITCODE_SVM" -> Exit("Svm", <<>>)
      [] exitcode = "VM_EXITCODE_REQIDLE" -> Exit("ReqIdle", <<>>)
      [] exitcode = "VM_EXITCODE_DEBUG" -> Exit("Debug", <<>>)
      [] exitcode = "VM_EXITCODE_VMINSN" -> Exit("VmInsn", <<>>)
      [] exitcode = "VM_EXITCODE_HT" -> Exit("Ht", <<>>)
      [] exitcode = "VM_EXITCODE_MAX" -> Exit("Max", <<>>)

\* what the process does instead of returning when a match has no arm to take
Crashed == [ok |-> FALSE, err |-> "no return", val |-> NoExit]

\* pub fn run(&self, vcpu_id): the results the call can have for an answer of
\* the hypervisor.  vm_exitcode is an enum, and the match has an arm for each
\* of its variants and no other; a tag that is no variant's discriminant makes
\* the match undefined: it may take any arm, or none.
run(vcpu_id, ans) ==
    IF ans.err # "" THEN {Err(ans.err, NoExit)}
    ELSE IF DefinedTag(ans.vm_exit.exitcode)
    THEN {Ok(MatchExitcode(vm_exitcode[ans.vm_exit.exitcode + 1], ans.vm_exit.u))}
    ELSE {Ok(MatchExitcode(vm_exitcode[i], ans.vm_exit.u)) : i \in 1..Len(vm_exitcode)}
            \cup {Crashed}

\* vm_exit::default(): what run_data holds when the request fails
DefaultExit ==
    [exitcode |-> 2,
     u |-> Payload([port |-> 0, eax |-> 0],
                   [status |-> 0, exit_reason |-> 0, exit_qualification |-> 0,
                    inst_type |-> 0, inst_error |-> 0])]

\* VM_RUN: the answers of the hypervisor
RunAnswers ==
    {[err |-> "", vm_exit |-> [exitcode |-> t, u |-> Payload(io, vx)]] :
        t \in (0..25 \cup {255}), io \in {[port |-> p, eax |-> a] : p \in {128, 1016}, a \in {0, 65}}, vx \in ({[status |-> 0, exit_reason |-> 0, exit_qualification |-> 0, inst_type |-> 0, inst_error |-> 0], [status |-> 1, exit_reason |-> 48, exit_qualification |-> 7, inst_type |-> 3, inst_error |-> 12]})}
    \cup {[err |-> e, vm_exit |-> DefaultExit] : e \in {"EINTR", "EFAULT"}}

Do_run ==
    \E v \in Vcpus, ans \in RunAnswers :
        \E res \in run(v, ans) :
            /\ last' = [op |-> "run", args |-> [cpuid |-> v], res |-> res,
                        reqs |-> <<[req |-> "VM_RUN", cpuid |-> v, err |-> ans.err,
                                    vm_exit |-> ans.vm_exit]>>,
                        rel |-> "none"]
            /\ UNCHANGED <<segs, maps, hostmaps, memflags, lowmem_limit, regs, descs, ncalls,
                           lifevars, threads>>

InitRun ==
    /\ NewHandle
    /\ threads = <<>>
    /\ segs = FreshSegs
    /\ maps = {}
    /\ hostmaps = {}
    /\ regs = <<>>
    /\ descs = <<>>

NextRun == Do_run

SpecRun == InitRun /\ [][NextRun]_vars

-----------------------------------------------------------------------------
(* Properties of run *)

\* C5: for every tag in the answer to a successful VM_RUN, the tags that are
\* no defined exit code included, run returns an exit; and a tag that is no
\* defined exit code is decoded as Bogus.
C5_UnknownTagIsBogus ==
    (last.op = "run" /\ last.reqs[1].err = "")
    => /\ last.res.ok
       /\ last.reqs[1].vm_exit.exitcode \notin 0..24 => last.res.val.kind = "Bogus"

\* C6: for a defined exit code a successful run returns the variant of VmExit
\* declared at the code's position, which no other exit code decodes to; InOut
\* and InOutStr carry the answer's port and eax, Vmx the answer's status, exit
\* reason, exit qualification, instruction type and instruction error; when
\* VM_RUN fails, run returns the request's error and no exit.
C6_RunDecodesExit ==
    last.op = "run"
    => LET ans == last.reqs[1]
           tag == ans.vm_exit.exitcode
           u == ans.vm_exit.u
           exit == last.res.val
       IN  /\ ans.err # "" => (~ last.res.ok /\ last.res.err = ans.err /\ exit = NoExit)
           /\ (ans.err = "" /\ tag \in 0..24)
              => /\ last.res.ok
                 /\ exit.kind = VmExit[tag + 1]
                 /\ \A c \in (0..24) \ {tag} :
                        \A r \in run(last.args.cpuid, [ans EXCEPT !.vm_exit.exitcode = c]) :
                            r.val.kind # exit.kind
                 /\ tag \in {0, 15} => exit.f = <<u.inout.port, u.inout.eax>>
                 /\ tag = 1 => exit.f = <<u.vmx.status, u.vmx.exit_reason,
                                          u.vmx.exit_qualification, u.vmx.inst_type,
                                          u.vmx.inst_error>>
                 /\ tag \notin {0, 1, 15} => exit.f = <<>>

\* a VMX exit came back with the five fields of the answer, each in its place
C6_Witness ==
    /\ last.op = "run"
    /\ last.res.ok
    /\ last.reqs[1].vm_exit.exitcode = 1
    /\ last.res.val = [kind |-> "Vmx", f |-> <<1, 48, 7, 3, 12>>]

-----------------------------------------------------------------------------
(* Properties of the multi-step setups *)

\* the requests of a call of that kind that were not answered with success
Failed(reqs, kind) == \E i \in 1..Len(reqs) : reqs[i].req = kind /\ reqs[i].err # ""

\* C11: the device-memory mapping (add_devmem, reached through setup_bootrom)
\* returns success only when each of its steps succeeded: the segment
\* allocation, the resolution of the device-memory offset and the host
\* mapping; when the host mapping cannot be placed at the requested address
\* the call returns the error AddrNotAvailable.
C11_DevmemSuccessMeansAllSteps ==
    last.op = "setup_bootrom"
    => /\ last.res.ok
          => /\ Issued(last.reqs, "HOST_MMAP")
             /\ \A kind \in {"VM_GET_MEMSEG", "VM_ALLOC_MEMSEG", "VM_DEVMEM_GETOFFSET",
                             "HOST_MMAP"} : ~ Failed(last.reqs, kind)
       /\ Failed(last.reqs, "HOST_MMAP")
          => (~ last.res.ok /\ last.res.err = AddrNotAvailable)

\* the requests of a setup in the order of its steps; the lookup that opens a
\* step comes before the request that carries it out
StepOrder(op) ==
    IF op = "setup_bootrom"
    THEN <<"VM_GET_MEMSEG", "VM_ALLOC_MEMSEG", "VM_DEVMEM_GETOFFSET", "HOST_MMAP",
           "VM_MMAP_GETNEXT", "VM_MMAP_MEMSEG">>
    ELSE <<"VM_GET_MEMSEG", "VM_ALLOC_MEMSEG", "VM_MMAP_GETNEXT", "VM_MMAP_MEMSEG",
           "HOST_MMAP">>

StepPos(op, kind) == CHOOSE n \in 1..Len(StepOrder(op)) : StepOrder(op)[n] = kind

\* C12: in a multi-step setup (setup_bootrom: allocate, resolve offset,
\* host-map, guest-map; setup_lowmem and setup_highmem: allocate, guest-map,
\* host-map) the requests are issued in the order of the steps, no request
\* follows a failed one (the lookup for an existing mapping aside, which only
\* tells whether the mapping is there), the failed request's error is the
\* result (AddrNotAvailable for the host mapping), and no segment or guest
\* mapping that was there before the call is undone.
C12_SetupStepsInOrder ==
    [][(\E op \in {"setup_bootrom", "setup_lowmem", "setup_highmem"} : Calls(op))
       => LET op == last'.op
              log == last'.reqs
          IN  /\ \A i, j \in 1..Len(log) :
                    i < j => StepPos(op, log[i].req) < StepPos(op, log[j].req)
              /\ \A i \in 1..Len(log) :
                    (log[i].err # "" /\ log[i].req # "VM_MMAP_GETNEXT")
                    => /\ i = Len(log)
                       /\ ~ last'.res.ok
                       /\ last'.res.err = (IF log[i].req = "HOST_MMAP"
                                           THEN AddrNotAvailable ELSE log[i].err)
              /\ \A r \in MemSegId : segs[r].len # 0 => segs'[r] = segs[r]
              /\ maps \subseteq maps']_vars

-----------------------------------------------------------------------------
(* Properties of the segment table *)

\* C13: after every call through the handle and every change of its
\* lowmem_limit, the LOWMEM segment, when present, is no longer than the
\* handle's lowmem_limit; and setup_lowmem with len above the limit fails with
\* InvalidInput, issues no request and allocates nothing.
C13_LowmemWithinLimit ==
    [][/\ segs'[VM_LOWMEM].len # 0 => segs'[VM_LOWMEM].len <= lowmem_limit'
       /\ (Calls("setup_lowmem") /\ last'.args.len > lowmem_limit)
          => (/\ ~ last'.res.ok
              /\ last'.res.err = InvalidInput
              /\ last'.reqs = <<>>
              /\ segs' = segs)]_vars

\* the role a call asks the hypervisor to allocate, when it asks
AllocRole(call) ==
    CASE call.op = "alloc_memseg" -> call.args.segid
      [] call.op = "setup_bootrom" -> VM_BOOTROM
      [] call.op = "setup_lowmem" -> VM_LOWMEM
      [] call.op = "setup_highmem" -> VM_HIGHMEM
      [] OTHER -> -1

\* C14: once a role is present with a length and a name, no call through the
\* handle (alloc_memseg, mmap_memseg, munmap_memseg, setup_lowmem,
\* setup_highmem, setup_bootrom; successful or failed) changes the length or
\* the name or makes the role absent, and no call asks the hypervisor to
\* allocate the role again.
C14_SegmentFixedOncePresent ==
    [][\A r \in MemSegId :
          segs[r].len # 0
          => /\ segs'[r] = segs[r]
             /\ (ncalls' = ncalls + 1 /\ AllocRole(last') = r)
                => ~ Issued(last'.reqs, "VM_ALLOC_MEMSEG")]_vars

\* an alloc_memseg with another length for a role that is present was refused
\* after the lookup, and the role has the length and name it had
C14_Witness ==
    /\ last.op = "alloc_memseg"
    /\ ~ last.res.ok
    /\ last.reqs = <<Req("VM_GET_MEMSEG", "")>>
    /\ last.args.segid = VM_BOOTROM
    /\ last.args.len = 4
    /\ segs[VM_BOOTROM] = [len |-> 8, name |-> BootromName]

-----------------------------------------------------------------------------
(* Properties of mmap_getnext *)

\* C15: for every mapping table and every gpa, mmap_getnext(gpa), when the
\* hypervisor answers it, returns a mapping of the table that starts at or
\* above gpa and no later than any other such mapping, and returns an error
\* when the table has no mapping at or above gpa; it issues the one lookup
\* request and nothing else.
C15_GetnextSmallestAtOrAbove ==
    \A gpa \in {0, 4, 8} :
        LET r == mmap_getnext(KState, gpa, NoFaults)
            cands == {m \in maps : m.gpa >= gpa}
        IN  /\ cands = {} => ~ r.res.ok
            /\ cands # {} => /\ r.res.ok
                             /\ r.res.val \in cands
                             /\ \A m \in cands : r.res.val.gpa <= m.gpa
            /\ Len(r.reqs) = 1
            /\ r.reqs[1].req = "VM_MMAP_GETNEXT"

\* with mappings at 0 and at 4 KiB, the lookup from 4 KiB returns the second
\* and the lookup from 8 KiB finds none
C15_Witness ==
    /\ Cardinality(maps) = 2
    /\ \E m \in maps : m.gpa = 0
    /\ \E m \in maps : m.gpa = 4
    /\ mmap_getnext(KState, 4, NoFaults).res.ok
    /\ mmap_getnext(KState, 4, NoFaults).res.val.gpa = 4
    /\ ~ mmap_getnext(KState, 8, NoFaults).res.ok

-----------------------------------------------------------------------------
(* Properties of the register and descriptor accessors *)

\* the vCPU state after the step
CStateNext == [regs |-> regs', descs |-> descs']

\* C16: when set_register(vcpu, reg, v) returns success, get_register(vcpu,
\* reg) then reads v; and a call that is neither a set_register on that
\* register of that vCPU nor a vcpu_reset of that vCPU (which is made of
\* set_register calls) leaves what get_register(vcpu, reg) reads as it was:
\* a set of another register, or of the same register on another vCPU, a
\* failed set, a get and a descriptor write change nothing.
C16_SetThenGetRegister ==
    [][\A v \in Vcpus, r \in RegNames :
          /\ (/\ Calls("set_register")
              /\ last'.res.ok
              /\ last'.args.cpuid = v
              /\ last'.args.reg = r)
             => get_register(CStateNext, v, r, NoFault).res = Ok(last'.args.val)
          /\ (/\ ncalls' = ncalls + 1
              /\ ~ (/\ last'.op = "set_register"
                    /\ last'.res.ok
                    /\ last'.args.cpuid = v
                    /\ last'.args.reg = r)
              /\ ~ (last'.op = "vcpu_reset" /\ last'.args.cpuid = v))
             => get_register(CStateNext, v, r, NoFault).res
                    = get_register(CState, v, r, NoFault).res]_vars

\* RAX of vCPU 1 has been set to 0x5a5a on a clean VM: it reads 0x5a5a, while
\* R8 of vCPU 1 and RAX of vCPU 0 still read 0
C16_Witness ==
    /\ last.op = "set_register"
    /\ last.res.ok
    /\ last.args = [cpuid |-> 1, reg |-> "VM_REG_GUEST_RAX", val |-> 23130]
    /\ ReadsReg(1, "VM_REG_GUEST_RAX", 23130)
    /\ ReadsReg(1, "VM_REG_GUEST_R8", 0)
    /\ ReadsReg(0, "VM_REG_GUEST_RAX", 0)

\* C17: when set_desc(vcpu, reg, base, limit, access) returns success,
\* get_desc(vcpu, reg) then reads exactly (base, limit, access) and what
\* get_register(vcpu, reg) reads is as it was before; and a set_register
\* call, on the same register name or another, leaves what every get_desc
\* reads as it was.
C17_SetThenGetDesc ==
    [][\A v \in Vcpus, r \in DescRegs :
          /\ (/\ Calls("set_desc")
              /\ last'.res.ok
              /\ last'.args.cpuid = v
              /\ last'.args.reg = r)
             => /\ get_desc(CStateNext, v, r, NoFault).res = Ok(last'.args.desc)
                /\ get_register(CStateNext, v, r, NoFault).res
                       = get_register(CState, v, r, NoFault).res
          /\ Calls("set_register")
             => get_desc(CStateNext, v, r, NoFault).res = DescRead(v, r)]_vars

\* the CS descriptor of vCPU 0 has been set on a VM whose registers hold
\* leftovers: the descriptor reads as written, the selector still reads 0x5a5a
C17_Witness ==
    /\ last.op = "set_desc"
    /\ last.res.ok
    /\ last.args.cpuid = 0
    /\ last.args.reg = "VM_REG_GUEST_CS"
    /\ last.args.desc = SegDesc(Addr(0, 0), 65535, 147)
    /\ DescRead(0, "VM_REG_GUEST_CS") = Ok(SegDesc(Addr(0, 0), 65535, 147))
    /\ ReadsReg(0, "VM_REG_GUEST_CS", 23130)

-----------------------------------------------------------------------------
(* Creating, opening and dropping: the lifecycle specification *)

\* a lifecycle call: the operating system takes the state the call left, the
\* program keeps the handle that new returned (hs), the log the outcome
LifeCall(op, args, out, hs) ==
    /\ ncalls < MaxLifeCalls
    /\ devices' = out.k.devices
    /\ fdtab' = out.k.fdtab
    /\ released' = out.k.released
    /\ handles' = hs
    /\ last' = [op |-> op, args |-> args,
                res |-> IF out.res.ok THEN Ok(TRUE) ELSE Err(out.res.err, FALSE),
                reqs |-> out.reqs, rel |-> "none"]
    /\ ncalls' = ncalls + 1
    /\ UNCHANGED <<segs, maps, hostmaps, memflags, lowmem_limit, regs, descs, threads>>

Do_create_vm ==
    \E name \in {Vm0, Vm1, NulName} :
        LifeCall("create_vm", [name |-> name], create_vm(LState, name), handles)

Do_destroy_vm ==
    \E name \in {Vm0, Vm1, NulName} :
        LifeCall("destroy_vm", [name |-> name], destroy_vm(LState, name), handles)

\* let vm = VirtualMachine::new(name)
Do_new ==
    \E h \in Handles, name \in {Vm0, Vm1, (<<46, 47>> \o Vm0), <<>>, NulName} :
        /\ handles[h].state = "none"
        /\ LET o == new(LState, h, name) IN
           LifeCall("new", [h |-> h, name |-> name], o,
                    IF o.res.ok THEN [handles EXCEPT ![h] = o.res.val] ELSE handles)

\* a method called on a handle: it borrows the handle, which is in scope
Do_handle_call ==
    \E h \in Handles, f \in {NoFault, "ENXIO"} :
        /\ handles[h].state = "live"
        /\ LifeCall("get_memseg", [h |-> h], get_memseg_on(LState, handles[h], f), handles)

\* the scope of a handle ends
Do_drop ==
    \E h \in Handles :
        /\ handles[h].state = "live"
        /\ LET o == drop(LState, handles[h]) IN
           LifeCall("drop", [h |-> h], o, [handles EXCEPT ![h] = o.res.val])

\* a process without handles, on a system without VMs or with the VM "vm0"
InitLife ==
    /\ devices \in {{}, {Vm0}}
    /\ fdtab = [fd \in Fds |-> Closed]
    /\ released = [h \in Handles |-> 0]
    /\ handles = [h \in Handles |-> NoHandle]
    /\ threads = <<>>
    /\ segs = FreshSegs
    /\ maps = {}
    /\ hostmaps = {}
    /\ memflags = 0
    /\ lowmem_limit = DefaultLowmemLimit
    /\ regs = <<>>
    /\ descs = <<>>
    /\ last = [op |-> "start", args |-> <<>>, res |-> Ok(TRUE), reqs |-> <<>>, rel |-> "none"]
    /\ ncalls = 0

NextLife ==
    \/ Do_create_vm
    \/ Do_destroy_vm
    \/ Do_new
    \/ Do_handle_call
    \/ Do_drop

SpecLife == InitLife /\ [][NextLife]_vars

-----------------------------------------------------------------------------
(* Properties of the lifecycle *)

\* C18: VirtualMachine::new(name) returns success exactly when a VM device
\* named name exists at the call (created and not destroyed since); on
\* success the handle has the requested name, a lowmem limit of 3 GiB and
\* no memory flags; on failure it returns an error, makes no handle and
\* leaves no descriptor open.
C18_NewExactlyWhenDeviceExists ==
    [][Calls("new")
       => LET h == last'.args.h
              name == last'.args.name
          IN  /\ last'.res.ok <=> name \in devices
              /\ last'.res.ok
                 => /\ handles'[h].state = "live"
                    /\ handles'[h].name = name
                    /\ handles'[h].lowmem_limit = 3 * GB
                    /\ handles'[h].memflags = 0
              /\ ~ last'.res.ok
                 => /\ last'.res.err # ""
                    /\ handles' = handles
                    /\ fdtab' = fdtab]_vars

\* C19: the channel of a handle is released exactly once, by the end of the
\* handle's scope and not before: while the handle lives its descriptor
\* carries its channel and the channel has not been released, once it is
\* dropped the channel has been released once and is on no descriptor; every
\* request of a method goes to the channel of the live handle it is called
\* on; and no method is called on a handle after its scope has ended.
C19_ChannelReleasedOnceAtTeardown ==
    [][/\ \A h \in Handles :
            /\ handles'[h].state = "none" => released'[h] = 0
            /\ handles'[h].state = "live"
               => /\ released'[h] = 0
                  /\ fdtab'[handles'[h].fd].chan = h
            /\ handles'[h].state = "dropped"
               => /\ released'[h] = 1
                  /\ \A fd \in Fds : fdtab'[fd].chan # h
            /\ released'[h] # released[h] => (Calls("drop") /\ last'.args.h = h)
       /\ Calls("get_memseg")
          => /\ handles[last'.args.h].state = "live"
             /\ \A i \in 1..Len(last'.reqs) :
                    /\ last'.reqs[i].err # "EBADF"
                    /\ fdtab[last'.reqs[i].fd].chan = last'.args.h
       /\ \A h \in Handles :
            handles[h].state = "dropped"
            => /\ handles'[h] = handles[h]
               /\ ~ (ncalls' = ncalls + 1 /\ last'.op \in {"get_memseg", "drop"}
                     /\ last'.args.h = h)]_vars

\* handle 1 was opened on descriptor 3 and dropped; handle 2 was then
\* opened and has descriptor 3 again, on its own channel
C19_Witness ==
    /\ handles[1].state = "dropped"
    /\ handles[1].fd = 3
    /\ released[1] = 1
    /\ handles[2].state = "live"
    /\ handles[2].fd = 3
    /\ fdtab[3].chan = 2
    /\ released[2] = 0

-----------------------------------------------------------------------------
(* Two threads sharing the handle: the thread specification.  The methods   *)
(* take &self and build their request in a local; a method is one request,  *)
(* which the hypervisor serves as a whole.                                  *)

Threads == {0, 1}

\* the vCPU a thread drives
VcpuOf(t) == t

\* a thread takes a step: the hypervisor takes the state the call left (out);
\* alone is the same call on the state the thread would have reached by itself
ThreadCall(t, op, out, alone) ==
    /\ threads[t].n < MaxThreadOps
    /\ regs' = out.c.regs
    /\ descs' = out.c.descs
    /\ threads' = [threads EXCEPT ![t] = [n |-> @.n + 1, op |-> op, res |-> out.res,
                                          alone |-> alone.c, alone_res |-> alone.res]]
    /\ UNCHANGED <<segs, maps, hostmaps, memflags, lowmem_limit, last, ncalls, lifevars>>

Th_set_register ==
    \E t \in Threads, reg \in {"VM_REG_GUEST_RAX", "VM_REG_GUEST_CS"}, val \in {4660} :
        ThreadCall(t, "set_register",
                   set_register(CState, VcpuOf(t), reg, val, NoFault),
                   set_register(threads[t].alone, VcpuOf(t), reg, val, NoFault))

Th_get_register ==
    \E t \in Threads, reg \in {"VM_REG_GUEST_RAX", "VM_REG_GUEST_CS"} :
        ThreadCall(t, "get_register",
                   get_register(CState, VcpuOf(t), reg, NoFault),
                   get_register(threads[t].alone, VcpuOf(t), reg, NoFault))

Th_set_desc ==
    \E t \in Threads, reg \in {"VM_REG_GUEST_CS"}, d \in {SegDesc(Addr(0, 0), 65535, 147)} :
        ThreadCall(t, "set_desc",
                   set_desc(CState, VcpuOf(t), reg, d.base, d.limit, d.access, NoFault),
                   set_desc(threads[t].alone, VcpuOf(t), reg, d.base, d.limit, d.access, NoFault))

Th_get_desc ==
    \E t \in Threads, reg \in {"VM_REG_GUEST_CS"} :
        ThreadCall(t, "get_desc",
                   get_desc(CState, VcpuOf(t), reg, NoFault),
                   get_desc(threads[t].alone, VcpuOf(t), reg, NoFault))

\* two threads that have not called yet, on the handle of a VM whose vCPUs
\* are clean or have been used
InitThreads ==
    /\ NewHandle
    /\ segs = FreshSegs
    /\ maps = {}
    /\ hostmaps = {}
    /\ \E used \in SUBSET Vcpus :
        /\ regs = [v \in Vcpus |-> IF v \in used THEN UsedRegs ELSE CleanRegs]
        /\ descs = [v \in Vcpus |-> IF v \in used THEN UsedDescs ELSE CleanDescs]
    /\ threads = [t \in Threads |-> [n |-> 0, op |-> "", res |-> Ok(TRUE),
                                     alone |-> CState, alone_res |-> Ok(TRUE)]]

NextThreads ==
    \/ Th_set_register
    \/ Th_get_register
    \/ Th_set_desc
    \/ Th_get_desc

SpecThreads == InitThreads /\ [][NextThreads]_vars

\* C20: however the register and descriptor calls of two threads on one
\* handle interleave, each thread on its own vCPU, every call returns what
\* it returns when its thread runs alone from the same start, and the
\* registers and descriptors of each vCPU are those its own thread's calls
\* produce in program order.
C20_ThreadsOnOwnVcpuIndependent ==
    \A t \in Threads :
        /\ threads[t].res = threads[t].alone_res
        /\ regs[VcpuOf(t)] = threads[t].alone.regs[VcpuOf(t)]
        /\ descs[VcpuOf(t)] = threads[t].alone.descs[VcpuOf(t)]

\* thread 0 has set RAX of vCPU 0 to 0x1234 and the CS descriptor; thread 1
\* has made two calls and read RAX of vCPU 1, which was not 0x1234
C20_Witness ==
    /\ threads[0].n = 2
    /\ regs[0]["VM_REG_GUEST_RAX"] = 4660
    /\ descs[0]["VM_REG_GUEST_CS"] = SegDesc(Addr(0, 0), 65535, 147)
    /\ threads[1].n = 2
    /\ threads[1].op = "get_register"
    /\ threads[1].res.ok
    /\ threads[1].res.val # 4660
    /\ regs[1]["VM_REG_GUEST_RAX"] # 4660

-----------------------------------------------------------------------------
(* Bringing a VM up, once or again: the bring-up specification.  A loader   *)
(* lays the memory out with setup_lowmem and setup_bootrom, possibly on a   *)
(* VM that is laid out already, in full or in part.                         *)

\* a bring-up call: the hypervisor and the host take the state the call left
BootCall(op, args, out) ==
    /\ ncalls < MaxBootCalls
    /\ segs' = out.k.segs
    /\ maps' = out.k.maps
    /\ hostmaps' = out.k.host
    /\ last' = Record(op, args, out.res, out.reqs)
    /\ ncalls' = ncalls + 1
    /\ UNCHANGED <<memflags, lowmem_limit, regs, descs, lifevars, threads>>

Boot_setup_lowmem ==
    \E fl \in Plans({"VM_GET_MEMSEG", "VM_MMAP_GETNEXT", "HOST_MMAP"}) :
        BootCall("setup_lowmem", [base |-> 16 * MB, len |-> 8],
                 setup_lowmem(KState, memflags, lowmem_limit, 16 * MB, 8, fl))

Boot_setup_bootrom ==
    \E len \in {PageSize, 2 * PageSize}, fl \in Plans({"VM_DEVMEM_GETOFFSET", "VM_MMAP_GETNEXT"}) :
        BootCall("setup_bootrom", [base |-> 32 * MB, len |-> len],
                 setup_bootrom(KState, memflags, 32 * MB, len, fl))

\* the first page of the boot ROM mapped by hand where setup_bootrom maps it
Boot_mmap_memseg ==
    \E prot \in {PROT_READ + PROT_EXEC} :
        BootCall("mmap_memseg",
                 [gpa |-> 4 * GB - 8, segid |-> VM_BOOTROM, off |-> 0, len |-> 4, prot |-> prot],
                 mmap_memseg(KState, memflags, 4 * GB - 8, VM_BOOTROM, 0, 4, prot, NoFaults))

\* a device's segment allocated by hand, under names of 0, 3, 63, 64 and 65 bytes
Boot_alloc_memseg ==
    \E segid \in {VM_FRAMEBUFFER},
       name \in {<<>>, NulName} \cup {[i \in 1..n |-> 97] : n \in {SPECNAMELEN, NameBufLen, NameBufLen + 1}},
       fl \in Plans({"VM_GET_MEMSEG"}) :
        BootCall("alloc_memseg", [segid |-> segid, len |-> 8, name |-> name],
                 alloc_memseg(KState, segid, 8, name, fl))

\* pub memflags: the caller writes the field between two calls
Boot_set_memflags ==
    \E f \in {0, VM_MEM_F_WIRED} :
        /\ ncalls < MaxBootCalls
        /\ memflags' = f
        /\ last' = Record("set_memflags", [flags |-> f], Ok(TRUE), <<>>)
        /\ UNCHANGED <<segs, maps, hostmaps, lowmem_limit, regs, descs, ncalls, lifevars, threads>>

InitBoot ==
    /\ NewHandle
    /\ threads = <<>>
    /\ segs \in {FreshSegs, LoaderSegs}
    /\ maps = {}
    /\ hostmaps = {}
    /\ regs = <<>>
    /\ descs = <<>>

NextBoot ==
    \/ Boot_alloc_memseg
    \/ Boot_setup_lowmem
    \/ Boot_setup_bootrom
    \/ Boot_mmap_memseg
    \/ Boot_set_memflags

SpecBoot == InitBoot /\ [][NextBoot]_vars

-----------------------------------------------------------------------------
(* Properties of the layout that the setups leave *)

\* C21: when setup_bootrom(base, len) returns success, the mapping table has
\* a mapping that starts at 2^32 - len, is len long, names the BOOTROM
\* segment at offset 0 and is readable and executable but not writable, and
\* the BOOTROM segment is present with length len and the name "bootrom".
C21_BootromAtTopOf32Bit ==
    [][(Calls("setup_bootrom") /\ last'.res.ok)
       => LET len == last'.args.len IN
          /\ \E m \in maps' : /\ m.gpa = 4 * GB - len
                              /\ m.len = len
                              /\ m.segid = VM_BOOTROM
                              /\ m.segoff = 0
                              /\ m.prot = PROT_READ + PROT_EXEC
          /\ segs'[VM_BOOTROM] = [len |-> len, name |-> BootromName]]_vars

-----------------------------------------------------------------------------
(* Properties of alloc_memseg's arguments *)

\* C22, as claimed: alloc_memseg on an absent segment, its lookup answered,
\* fails with InvalidInput without an allocation request and leaves the
\* segment absent when the name has 64 bytes or more, and issues the
\* allocation request, which stores the name in full, for every name of 1
\* to 63 bytes.
C22_EveryShortNameAccepted ==
    [][(/\ Calls("alloc_memseg")
        /\ segs[last'.args.segid].len = 0
        /\ ~ Failed(last'.reqs, "VM_GET_MEMSEG"))
       => LET name == last'.args.name
              segid == last'.args.segid
          IN  /\ Len(name) >= NameBufLen
                 => /\ ~ last'.res.ok
                    /\ last'.res.err = InvalidInput
                    /\ ~ Issued(last'.reqs, "VM_ALLOC_MEMSEG")
                    /\ segs'[segid].len = 0
              /\ Len(name) \in 1..SPECNAMELEN
                 => /\ Issued(last'.reqs, "VM_ALLOC_MEMSEG")
                    /\ last'.res.ok => segs'[segid].name = name]_vars

\* C22, amended: as above for names of 64 bytes or more; a name of 1 to 63
\* bytes is accepted and stored in full when it has no NUL byte, and a name
\* with a NUL byte fails with InvalidInput before any request.
C22_NameFitsOrRefused ==
    [][(/\ Calls("alloc_memseg")
        /\ segs[last'.args.segid].len = 0
        /\ ~ Failed(last'.reqs, "VM_GET_MEMSEG"))
       => LET name == last'.args.name
              segid == last'.args.segid
          IN  /\ Len(name) >= NameBufLen
                 => /\ ~ last'.res.ok
                    /\ last'.res.err = InvalidInput
                    /\ ~ Issued(last'.reqs, "VM_ALLOC_MEMSEG")
                    /\ segs'[segid].len = 0
              /\ (Len(name) \in 1..SPECNAMELEN /\ ~ HasNul(name))
                 => /\ Issued(last'.reqs, "VM_ALLOC_MEMSEG")
                    /\ last'.res.ok => segs'[segid].name = name
              /\ HasNul(name)
                 => /\ ~ last'.res.ok
                    /\ last'.res.err = InvalidInput
                    /\ last'.reqs = <<>>
                    /\ segs' = segs]_vars

\* the frame buffer's segment has been allocated under a name of 63 bytes,
\* which the segment table holds in full
C22_Witness ==
    /\ last.op = "alloc_memseg"
    /\ last.res.ok
    /\ last.args.segid = VM_FRAMEBUFFER
    /\ Len(last.args.name) = SPECNAMELEN
    /\ Issued(last.reqs, "VM_ALLOC_MEMSEG")
    /\ segs[VM_FRAMEBUFFER] = [len |-> 8, name |-> last.args.name]

\* C23: alloc_memseg for a device-memory role (BOOTROM, FRAMEBUFFER) that is
\* absent, called with an empty name, fails and does not create the segment.
C23_DeviceRoleNeedsName ==
    [][(/\ Calls("alloc_memseg")
        /\ last'.args.segid \in {VM_BOOTROM, VM_FRAMEBUFFER}
        /\ last'.args.name = <<>>
        /\ segs[last'.args.segid].len = 0)
       => /\ ~ last'.res.ok
          /\ segs'[last'.args.segid].len = 0]_vars

-----------------------------------------------------------------------------
(* ioctl request codes *)

\* sys/ioccom.h: the size of the parameters goes into the upper word, under
\* the three bits that tell their direction.  A 32-bit code is held as its
\* upper and lower 16 bits, and the direction bits in units of 2^16.
IOCPARM_MASK == 255
IOCPARM_SIZESHIFT == 16
IOC_VOID == 8192
IOC_OUT == 16384
IOC_IN == 32768

\* 118 << 8, 118 being ASCII for 'v'
VMM_IOC_GROUP == 30208

\* | and & of two 16-bit values
RECURSIVE BitOr(_, _)
BitOr(a, b) ==
    IF a = 0 THEN b
    ELSE IF b = 0 THEN a
    ELSE (IF a % 2 = 1 \/ b % 2 = 1 THEN 1 ELSE 0) + 2 * BitOr(a \div 2, b \div 2)

RECURSIVE BitAnd(_, _)
BitAnd(a, b) ==
    IF a = 0 \/ b = 0 THEN 0
    ELSE (IF a % 2 = 1 /\ b % 2 = 1 THEN 1 ELSE 0) + 2 * BitAnd(a \div 2, b \div 2)

\* IOC_IN | IOC_OUT
IOC_INOUT == 49152

\* the macro without the mask: the whole size is shifted into the upper word
define_ioctl_op_unmasked(inout, ioctl_number, param_size) ==
    LET shifted == param_size * 2^IOCPARM_SIZESHIFT
    IN  Addr(BitOr(BitOr(inout, (shifted \div 65536) % 65536), ioctl_number \div 65536),
             BitOr(BitOr(shifted % 65536, VMM_IOC_GROUP), ioctl_number % 65536))

define_ioctl_op(inout, ioctl_number, param_size) ==
    LET shifted == BitAnd(param_size, IOCPARM_MASK) * 2^IOCPARM_SIZESHIFT
    IN  Addr(BitOr(BitOr(inout, (shifted \div 65536) % 65536), ioctl_number \div 65536),
             BitOr(BitOr(shifted % 65536, VMM_IOC_GROUP), ioctl_number % 65536))

\* enum IocNum, for the operations that have a request code
IocNum ==
    [IOCNUM_RUN |-> 1, IOCNUM_SET_CAPABILITY |-> 2, IOCNUM_GET_CAPABILITY |-> 3,
     IOCNUM_SUSPEND |-> 4, IOCNUM_REINIT |-> 5,
     IOCNUM_ALLOC_MEMSEG |-> 14, IOCNUM_GET_MEMSEG |-> 15, IOCNUM_MMAP_MEMSEG |-> 16,
     IOCNUM_MMAP_GETNEXT |-> 17, IOCNUM_MUNMAP_MEMSEG |-> 19,
     IOCNUM_SET_REGISTER |-> 20, IOCNUM_GET_REGISTER |-> 21,
     IOCNUM_SET_SEGMENT_DESCRIPTOR |-> 22, IOCNUM_GET_SEGMENT_DESCRIPTOR |-> 23,
     IOCNUM_VM_STATS |-> 50,
     IOCNUM_SET_X2APIC_STATE |-> 60, IOCNUM_GET_X2APIC_STATE |-> 61,
     IOCNUM_SET_TOPOLOGY |-> 63, IOCNUM_GET_TOPOLOGY |-> 64,
     IOCNUM_ACTIVATE_CPU |-> 90, IOCNUM_SUSPEND_CPU |-> 92, IOCNUM_RESUME_CPU |-> 93,
     IOCNUM_RTC_READ |-> 100, IOCNUM_RTC_WRITE |-> 101,
     IOCNUM_RTC_SETTIME |-> 102, IOCNUM_RTC_GETTIME |-> 103,
     IOCNUM_DEVMEM_GETOFFSET |-> 256]

\* maximum virtual cpus
VM_MAXCPU == 32

\* the #[repr(C)] types that size_of is taken of, with the types they are
\* made of: a scalar has its size (an enum is a C int), a struct and a union
\* have their fields in order, each a type and a count (1 unless an array)
Layout ==
    LET scalar(n) == [kind |-> "scalar", size |-> n, fields |-> <<>>]
        struct(fs) == [kind |-> "struct", size |-> 0, fields |-> fs]
        union(fs) == [kind |-> "union", size |-> 0, fields |-> fs]
        f(t) == <<t, 1>>
    IN  [u8 |-> scalar(1), c_char |-> scalar(1), u16 |-> scalar(2),
         i32 |-> scalar(4), u32 |-> scalar(4), c_int |-> scalar(4), c_uint |-> scalar(4),
         enum |-> scalar(4),
         i64 |-> scalar(8), c_long |-> scalar(8), c_longlong |-> scalar(8),
         c_ulonglong |-> scalar(8), size_t |-> scalar(8),
         timeval |-> struct(<<f("c_long"), f("c_long")>>),
         seg_desc |-> struct(<<f("c_ulonglong"), f("c_uint"), f("c_uint")>>),
         vm_guest_paging |-> struct(<<f("c_ulonglong"), f("c_int"), f("enum"), f("enum")>>),
         vie_op |-> struct(<<f("u8"), f("u8"), f("u16")>>),
         vie |-> struct(<<<<"u8", 15>>, f("u8"), f("u8"), <<"u8", 5>>, f("u8"), f("u8"),
                          f("u8"), f("i32"), f("i32"), f("i32"), f("i64"), f("i64"),
                          f("u8"), f("vie_op")>>),
         vm_inout |-> struct(<<f("u8"), f("u16"), f("u32")>>),
         vm_inout_str |-> struct(<<f("vm_inout"), f("vm_guest_paging"), f("c_ulonglong"),
                                   f("c_ulonglong"), f("c_ulonglong"), f("c_ulonglong"),
                                   f("enum"), f("seg_desc")>>),
         vm_task_switch |-> struct(<<f("u16"), f("c_int"), f("c_uint"), f("c_int"),
                                     f("enum"), f("vm_guest_paging")>>),
         vm_exit_paging |-> struct(<<f("c_ulonglong"), f("c_int")>>),
         vm_exit_inst_emul |-> struct(<<f("c_ulonglong"), f("c_ulonglong"), f("c_ulonglong"),
                                        f("c_int"), f("vm_guest_paging"), f("vie")>>),
         vm_exit_vmx |-> struct(<<f("c_int"), f("c_uint"), f("c_ulonglong"), f("c_int"),
                                  f("c_int")>>),
         vm_exit_svm |-> struct(<<f("c_ulonglong"), f("c_ulonglong"), f("c_ulonglong")>>),
         vm_exit_msr |-> struct(<<f("c_uint"), f("c_ulonglong")>>),
         vm_exit_spinup_ap |-> struct(<<f("c_int"), f("c_ulonglong")>>),
         vm_exit_hlt |-> struct(<<f("c_ulonglong"), f("c_ulonglong")>>),
         vm_exit_ioapic_eoi |-> struct(<<f("c_int")>>),
         vm_exit_suspended |-> struct(<<f("enum")>>),
         vm_exit_payload |-> union(<<f("vm_inout"), f("vm_inout_str"), f("vm_exit_paging"),
                                     f("vm_exit_inst_emul"), f("vm_exit_vmx"),
                                     f("vm_exit_svm"), f("vm_exit_msr"),
                                     f("vm_exit_spinup_ap"), f("vm_exit_hlt"),
                                     f("vm_exit_ioapic_eoi"), f("vm_exit_suspended"),
                                     f("vm_task_switch"), f("c_int")>>),
         vm_exit |-> struct(<<f("enum"), f("c_int"), f("c_ulonglong"), f("vm_exit_payload")>>),
         vm_run |-> struct(<<f("c_int"), f("vm_exit")>>),
         vm_suspend |-> struct(<<f("enum")>>),
         vm_memseg |-> struct(<<f("c_int"), f("size_t"), <<"c_char", SPECNAMELEN + 1>>>>),
         vm_memmap |-> struct(<<f("c_ulonglong"), f("c_int"), f("c_longlong"), f("size_t"),
                                f("c_int"), f("c_int")>>),
         vm_munmap |-> struct(<<f("c_ulonglong"), f("size_t")>>),
         vm_register |-> struct(<<f("c_int"), f("c_int"), f("c_ulonglong")>>),
         vm_seg_desc |-> struct(<<f("c_int"), f("c_int"), f("seg_desc")>>),
         vm_capability |-> struct(<<f("c_int"), f("enum"), f("c_int"), f("c_int")>>),
         vm_x2apic |-> struct(<<f("c_int"), f("enum")>>),
         vm_cpu_topology |-> struct(<<f("u16"), f("u16"), f("u16"), f("u16")>>),
         vm_stats |-> struct(<<f("c_int"), f("c_int"), f("timeval"),
                               <<"c_ulonglong", 64 + VM_MAXCPU>>>>),
         vm_activate_cpu |-> struct(<<f("c_int")>>),
         vm_rtc_data |-> struct(<<f("c_int"), f("u8")>>),
         vm_rtc_time |-> struct(<<f("c_longlong")>>),
         vm_devmem_offset |-> struct(<<f("c_int"), f("c_longlong")>>)]

\* size_of and align_of under #[repr(C)]: every field at the next multiple of
\* its alignment, the whole rounded up to the largest alignment of a field; a
\* union is as large as its largest field
RECURSIVE SizeOf(_), AlignOf(_), FieldsEnd(_, _, _)
AlignOf(t) ==
    LET d == Layout[t] IN
    IF d.kind = "scalar" THEN d.size
    ELSE LET as == {AlignOf(d.fields[i][1]) : i \in 1..Len(d.fields)}
         IN  CHOOSE a \in as : \A b \in as : b <= a

FieldsEnd(fields, i, off) ==
    IF i > Len(fields) THEN off
    ELSE LET a == AlignOf(fields[i][1])
             at == ((off + a - 1) \div a) * a
         IN  FieldsEnd(fields, i + 1, at + SizeOf(fields[i][1]) * fields[i][2])

SizeOf(t) ==
    LET d == Layout[t]
        a == AlignOf(t)
        end == IF d.kind = "struct" THEN FieldsEnd(d.fields, 1, 0)
               ELSE LET ss == {SizeOf(d.fields[i][1]) * d.fields[i][2] : i \in 1..Len(d.fields)}
                    IN  CHOOSE x \in ss : \A y \in ss : y <= x
    IN  IF d.kind = "scalar" THEN d.size ELSE ((end + a - 1) \div a) * a

\* the request codes, each with the direction, operation number and
\* parameter type it is defined from ("" where there are no parameters)
IocOps ==
    LET op(inout, n, t) == [inout |-> inout, num |-> IocNum[n], param |-> t]
    IN  [VM_RUN |-> op(IOC_INOUT, "IOCNUM_RUN", "vm_run"),
         VM_SUSPEND |-> op(IOC_IN, "IOCNUM_SUSPEND", "vm_suspend"),
         VM_REINIT |-> op(IOC_VOID, "IOCNUM_REINIT", ""),
         VM_ALLOC_MEMSEG |-> op(IOC_IN, "IOCNUM_ALLOC_MEMSEG", "vm_memseg"),
         VM_GET_MEMSEG |-> op(IOC_INOUT, "IOCNUM_GET_MEMSEG", "vm_memseg"),
         VM_MMAP_MEMSEG |-> op(IOC_IN, "IOCNUM_MMAP_MEMSEG", "vm_memmap"),
         VM_MMAP_GETNEXT |-> op(IOC_INOUT, "IOCNUM_MMAP_GETNEXT", "vm_memmap"),
         VM_MUNMAP_MEMSEG |-> op(IOC_IN, "IOCNUM_MUNMAP_MEMSEG", "vm_munmap"),
         VM_SET_REGISTER |-> op(IOC_IN, "IOCNUM_SET_REGISTER", "vm_register"),
         VM_GET_REGISTER |-> op(IOC_INOUT, "IOCNUM_GET_REGISTER", "vm_register"),
         VM_SET_SEGMENT_DESCRIPTOR |-> op(IOC_IN, "IOCNUM_SET_SEGMENT_DESCRIPTOR", "vm_seg_desc"),
         VM_GET_SEGMENT_DESCRIPTOR |-> op(IOC_INOUT, "IOCNUM_GET_SEGMENT_DESCRIPTOR", "vm_seg_desc"),
         VM_SET_CAPABILITY |-> op(IOC_IN, "IOCNUM_SET_CAPABILITY", "vm_capability"),
         VM_GET_CAPABILITY |-> op(IOC_INOUT, "IOCNUM_GET_CAPABILITY", "vm_capability"),
         VM_SET_X2APIC_STATE |-> op(IOC_IN, "IOCNUM_SET_X2APIC_STATE", "vm_x2apic"),
         VM_GET_X2APIC_STATE |-> op(IOC_INOUT, "IOCNUM_GET_X2APIC_STATE", "vm_x2apic"),
         VM_SET_TOPOLOGY |-> op(IOC_IN, "IOCNUM_SET_TOPOLOGY", "vm_cpu_topology"),
         VM_GET_TOPOLOGY |-> op(IOC_OUT, "IOCNUM_GET_TOPOLOGY", "vm_cpu_topology"),
         VM_STATS_IOC |-> op(IOC_INOUT, "IOCNUM_VM_STATS", "vm_stats"),
         VM_ACTIVATE_CPU |-> op(IOC_IN, "IOCNUM_ACTIVATE_CPU", "vm_activate_cpu"),
         VM_SUSPEND_CPU |-> op(IOC_IN, "IOCNUM_SUSPEND_CPU", "vm_activate_cpu"),
         VM_RESUME_CPU |-> op(IOC_IN, "IOCNUM_RESUME_CPU", "vm_activate_cpu"),
         VM_RTC_WRITE |-> op(IOC_IN, "IOCNUM_RTC_WRITE", "vm_rtc_data"),
         VM_RTC_READ |-> op(IOC_INOUT, "IOCNUM_RTC_READ", "vm_rtc_data"),
         VM_RTC_SETTIME |-> op(IOC_IN, "IOCNUM_RTC_SETTIME", "vm_rtc_time"),
         VM_RTC_GETTIME |-> op(IOC_OUT, "IOCNUM_RTC_GETTIME", "vm_rtc_time"),
         VM_DEVMEM_GETOFFSET |-> op(IOC_IN, "IOCNUM_DEVMEM_GETOFFSET", "vm_devmem_offset")]

\* the value of one of the constants
IoctlCode(name) ==
    LET o == IocOps[name] IN
    define_ioctl_op(o.inout, o.num, IF o.param = "" THEN 0 ELSE SizeOf(o.param))

\* the macro applied to a direction, a number and a size
Ioc_define ==
    \E inout \in {IOC_VOID, IOC_OUT, IOC_IN, IOC_INOUT}, num \in {0, 1, 64, 255, 256, 257},
       size \in {0, 1, 4, 144, 255, 256, 792} :
        /\ last' = [op |-> "define_ioctl_op",
                    args |-> [inout |-> inout, num |-> num, size |-> size],
                    res |-> Ok(define_ioctl_op(inout, num, size)),
                    reqs |-> <<>>, rel |-> "none"]
        /\ UNCHANGED <<segs, maps, hostmaps, memflags, lowmem_limit, regs, descs, ncalls,
                       lifevars, threads>>

\* one of the constants evaluated
Ioc_const ==
    \E name \in DOMAIN IocOps :
        LET o == IocOps[name] IN
        /\ last' = [op |-> name,
                    args |-> [inout |-> o.inout, num |-> o.num,
                              size |-> IF o.param = "" THEN 0 ELSE SizeOf(o.param)],
                    res |-> Ok(IoctlCode(name)),
                    reqs |-> <<>>, rel |-> "none"]
        /\ UNCHANGED <<segs, maps, hostmaps, memflags, lowmem_limit, regs, descs, ncalls,
                       lifevars, threads>>

\* nothing has been evaluated, and no VM is involved
InitIoc ==
    /\ last = [op |-> "none", args |-> [inout |-> 0, num |-> 0, size |-> 0],
               res |-> Ok(Addr(0, 0)), reqs |-> <<>>, rel |-> "none"]
    /\ segs = FreshSegs
    /\ maps = {}
    /\ hostmaps = {}
    /\ memflags = 0
    /\ lowmem_limit = DefaultLowmemLimit
    /\ regs = <<>>
    /\ descs = <<>>
    /\ ncalls = 0
    /\ devices = {}
    /\ fdtab = [fd \in Fds |-> Closed]
    /\ released = [h \in Handles |-> 0]
    /\ handles = [h \in Handles |-> NoHandle]
    /\ threads = <<>>

NextIoc ==
    \/ Ioc_define
    \/ Ioc_const

SpecIoc == InitIoc /\ [][NextIoc]_vars

-----------------------------------------------------------------------------
(* Properties of the request codes *)

\* C24: the request code of every operation is its direction bits OR (the
\* parameter size mod 256, shifted left by 16) OR (118, 'v', shifted left by
\* 8) OR its operation number, bit for bit in 32 bits; the codes of the
\* defined operations are pairwise distinct; and VM_RUN is 0xc0907601 (size
\* 0x90), VM_SUSPEND 0x80047604, VM_REINIT 0x20007605, VM_SET_TOPOLOGY
\* 0x8008763f, VM_GET_TOPOLOGY 0x40087640 and VM_STATS_IOC 0xc0187632 (size
\* 0x318, reduced to 0x18).
C24_RequestCodes ==
    LET bit(x, i) == (x \div 2^i) % 2 = 1
        a == last.args
        code == last.res.val
    IN  /\ last.op # "none"
           => \A i \in 0..15 :
                /\ bit(code.hi, i) <=> (bit(a.inout, i) \/ bit(a.size % 256, i))
                /\ bit(code.lo, i) <=> (bit(118 * 2^8, i) \/ bit(a.num, i))
        /\ last.op \in DOMAIN IocOps
           => \A other \in DOMAIN IocOps \ {last.op} : IoctlCode(other) # code
        /\ last.op = "VM_RUN" => (a.size = 144 /\ code = Addr(49296, 30209))
        /\ last.op = "VM_SUSPEND" => code = Addr(32772, 30212)
        /\ last.op = "VM_REINIT" => code = Addr(8192, 30213)
        /\ last.op = "VM_SET_TOPOLOGY" => code = Addr(32776, 30271)
        /\ last.op = "VM_GET_TOPOLOGY" => code = Addr(16392, 30272)
        /\ last.op = "VM_STATS_IOC" => (a.size = 792 /\ code = Addr(49176, 30258))

\* VM_STATS_IOC has been evaluated: the size of vm_stats is 0x318 and the
\* code carries 0x18 of it
C24_Witness ==
    /\ last.op = "VM_STATS_IOC"
    /\ last.args = [inout |-> IOC_INOUT, num |-> 50, size |-> 792]
    /\ last.res.val = Addr(49176, 30258)

-----------------------------------------------------------------------------
(* Properties of the role that guest memory is mapped from *)

\* C26: the guest mapping that setup_lowmem or setup_highmem asks for names
\* the role the call allocated: after a successful setup_highmem the mapping
\* at 4 GiB references the HIGHMEM segment, and after a successful
\* setup_lowmem the mapping at 0 references the LOWMEM segment.
C26_MappingNamesAllocatedRole ==
    [][/\ (Calls("setup_highmem") /\ last'.res.ok)
          => \E m \in maps' : m.gpa = 4 * GB /\ m.segid = VM_HIGHMEM
       /\ (Calls("setup_lowmem") /\ last'.res.ok)
          => \E m \in maps' : m.gpa = 0 /\ m.segid = VM_LOWMEM]_vars

-----------------------------------------------------------------------------
(* Properties of the queries that come before a request *)

C28_QueryErrorNeverReturned ==
    [][Calls("mmap_memseg")
       => LET reqs == last'.reqs
              found == /\ reqs[1] = Req("VM_MMAP_GETNEXT", "")
                       /\ \E m \in maps : m.gpa = last'.args.gpa
          IN  /\ reqs # <<>> /\ reqs[1].req = "VM_MMAP_GETNEXT"
              /\ found => ~ Issued(reqs, "VM_MMAP_MEMSEG")
              /\ ~ found
                 => /\ Len(reqs) = 2
                    /\ reqs[2].req = "VM_MMAP_MEMSEG"
                    /\ last'.res.ok <=> reqs[2].err = ""
                    /\ ~ last'.res.ok => last'.res.err = reqs[2].err]_vars

\* the existence query has failed and mmap_memseg has returned the success
\* of the mapping request it issued all the same
C28_Witness ==
    /\ last.op = "mmap_memseg"
    /\ last.reqs = <<Req("VM_MMAP_GETNEXT", "EINTR"), Req("VM_MMAP_MEMSEG", "")>>
    /\ last.res.ok
    /\ \E m \in maps : m.gpa = last.args.gpa /\ m.len = last.args.len

-----------------------------------------------------------------------------
(* Properties of running the setups again *)

\* what a successful setup_lowmem(base, len) leaves: the LOWMEM segment with
\* len and no name, and a mapping of it at 0 with the handle's flags
LowmemSetUp(sg, mp, mf, len) ==
    /\ sg[VM_LOWMEM] = [len |-> len, name |-> <<>>]
    /\ \E m \in mp : /\ m.gpa = 0
                     /\ m.segid = VM_LOWMEM
                     /\ m.segoff = 0
                     /\ m.prot = PROT_READ + PROT_WRITE + PROT_EXEC
                     /\ m.flags = MemmapFlags(mf)

\* what a successful setup_bootrom(base, len) leaves: the BOOTROM segment
\* with len and its name, and a mapping of it at 2^32 - len with the
\* handle's flags
BootromSetUp(sg, mp, mf, len) ==
    /\ sg[VM_BOOTROM] = [len |-> len, name |-> BootromName]
    /\ \E m \in mp : /\ m.gpa = 4 * GB - len
                     /\ m.segid = VM_BOOTROM
                     /\ m.segoff = 0
                     /\ m.prot = PROT_READ + PROT_EXEC
                     /\ m.flags = MemmapFlags(mf)

\* the queries and the host mapping of a call were all answered
Answered(reqs) ==
    \A i \in 1..Len(reqs) :
        reqs[i].req \in {"VM_GET_MEMSEG", "VM_MMAP_GETNEXT", "VM_DEVMEM_GETOFFSET", "HOST_MMAP"}
            => reqs[i].err = ""

\* C29: setup_lowmem(base, len) and then setup_bootrom(rombase, romlen), run
\* a second time with the same arguments and memflags unchanged, succeed,
\* leave the segment table and the mapping table as they were and have no
\* allocation or guest-mapping request issued: a successful setup leaves its
\* segment and mapping in place, every later call that keeps memflags keeps
\* them, and a setup that finds them and has its queries answered succeeds
\* without a change.
C29_SetupsRunAgainChangeNothing ==
    [][/\ (Calls("setup_lowmem") /\ last'.res.ok)
          => LowmemSetUp(segs', maps', memflags', last'.args.len)
       /\ (Calls("setup_bootrom") /\ last'.res.ok)
          => BootromSetUp(segs', maps', memflags', last'.args.len)
       /\ memflags' = memflags
          => \A len \in {PageSize, 2 * PageSize} :
                /\ LowmemSetUp(segs, maps, memflags, len)
                   => LowmemSetUp(segs', maps', memflags', len)
                /\ BootromSetUp(segs, maps, memflags, len)
                   => BootromSetUp(segs', maps', memflags', len)
       /\ (/\ \/ Calls("setup_lowmem") /\ LowmemSetUp(segs, maps, memflags, last'.args.len)
              \/ Calls("setup_bootrom") /\ BootromSetUp(segs, maps, memflags, last'.args.len)
           /\ Answered(last'.reqs))
          => /\ last'.res.ok
             /\ segs' = segs
             /\ maps' = maps
             /\ ~ Issued(last'.reqs, "VM_ALLOC_MEMSEG")
             /\ ~ Issued(last'.reqs, "VM_MMAP_MEMSEG")]_vars

\* setup_bootrom has succeeded on queries alone, with the layout of both
\* setups in place after four calls: the last step of the second run
C29_Witness ==
    /\ last.op = "setup_bootrom"
    /\ last.res.ok
    /\ last.reqs = <<Req("VM_GET_MEMSEG", ""), Req("VM_DEVMEM_GETOFFSET", ""),
                     Req("HOST_MMAP", ""), Req("VM_MMAP_GETNEXT", "")>>
    /\ ncalls = 4
    /\ LowmemSetUp(segs, maps, memflags, 2 * PageSize)
    /\ BootromSetUp(segs, maps, memflags, last.args.len)
    /\ Cardinality(maps) = 2

-----------------------------------------------------------------------------
(* Properties of what a register call leaves alone *)

\* C30: a successful set_register changes only that register of that vCPU
\* and a successful set_desc only that descriptor of that vCPU: every other
\* register and descriptor, every other vCPU, the segment table and the
\* mapping table are as before; get_register, get_desc and a failed set
\* change nothing.
C30_RegisterCallsChangeOnlyTheirTarget ==
    [][/\ (Calls("set_register") /\ last'.res.ok)
          => /\ \A v \in Vcpus, r \in RegNames :
                    (v # last'.args.cpuid \/ r # last'.args.reg)
                        => regs'[v][r] = regs[v][r]
             /\ descs' = descs
             /\ segs' = segs /\ maps' = maps
       /\ (Calls("set_desc") /\ last'.res.ok)
          => /\ \A v \in Vcpus, r \in DescRegs :
                    (v # last'.args.cpuid \/ r # last'.args.reg)
                        => descs'[v][r] = descs[v][r]
             /\ regs' = regs
             /\ segs' = segs /\ maps' = maps
       /\ (\/ Calls("get_register")
           \/ Calls("get_desc")
           \/ Calls("set_register") /\ ~ last'.res.ok
           \/ Calls("set_desc") /\ ~ last'.res.ok)
          => /\ regs' = regs /\ descs' = descs
             /\ segs' = segs /\ maps' = maps]_vars

\* the CS descriptor of vCPU 1 of a used VM has been set: it holds the new
\* value while its selector, its GDTR descriptor and the CS descriptor of
\* vCPU 0 hold their leftovers
C30_Witness ==
    /\ last.op = "set_desc"
    /\ last.res.ok
    /\ last.args.cpuid = 1
    /\ last.args.reg = "VM_REG_GUEST_CS"
    /\ descs[1]["VM_REG_GUEST_CS"] = SegDesc(Addr(0, 0), 65535, 147)
    /\ regs[1]["VM_REG_GUEST_CS"] = 23130
    /\ descs[1]["VM_REG_GUEST_GDTR"] = UsedDesc
    /\ descs[0]["VM_REG_GUEST_CS"] = UsedDesc

====
